---- MODULE Spec2Model ----
(***************************************************************************)
(* SpaceAce: an immutable, observable state container.                     *)
(*                                                                         *)
(* The repository holds three implementations of lib/Space.js:             *)
(*   "FnDoc"  the function-style library, src/README.md:208-517            *)
(*            (spaces are frozen functions; every update builds new        *)
(*            versions up to the root and links them in _newerSpaces);     *)
(*   "FnLib"  the function-style library, src/lib/Space.js:440-776         *)
(*            (parents are re-created by merging the child's plain value); *)
(*   "Class"  the class-style library, src/lib/Space.js:1-438              *)
(*            (mutable Space objects with preState / generatedState).      *)
(* The variable api says which of them a behaviour runs.                   *)
(***************************************************************************)
EXTENDS Integers, Sequences, FiniteSets, TLC

\* ---------------------------------------------------------------- bounds
MaxOps == 3        \* calls in one function-style behaviour
MaxClsOps == 4     \* the same, of a class-style behaviour
MaxSubs == 2       \* subscribers registered in one behaviour
MaxRtOps == 4      \* calls in a behaviour with cancelling subscribers
MaxRtSubs == 3     \* subscribers registered in such a behaviour
MaxListOps == 4    \* calls in a behaviour on a tree with a list
MaxAsync == 2      \* async actions started in one behaviour
MaxDirect == 1     \* updates by other code in a behaviour with async actions

VARIABLES
  api,          \* "FnDoc" | "FnLib" | "Class"
  spaces,       \* function-style: the heap of space objects, by identity
  subscribers,  \* function-style: the _subscribers arrays, by array identity
  nsubs,        \* subscribers registered so far
  subOn,        \* history: the space each subscriber was registered on
  role,         \* what each subscriber does when it is called
  gone,         \* history: the paths of the spaces an update has dropped
  log,          \* the subscriber invocations of the last call, in order
  last,         \* the last call: what was called on what, and what it returned
  steps,        \* calls made so far
  pending,      \* the async actions started: what each has merged and has yet to
  unsubs        \* the unsubscribe functions returned: the space and the index
                \* each captured, and whether it has been called

vars ==
  <<api, spaces, subscribers, nsubs, subOn, role, gone, log, last, steps,
    pending, unsubs>>

\* ------------------------------------------------------------ plain values
\* A JavaScript value is a tagged record:
\*   P(v)   a primitive          O(f)   a fresh plain object with fields f
\*   S(i)   the space object i   St(i)  the frozen _state object of space i
\*   U      undefined        Null   null
\*   A(f)   a fresh array with the items f (a sequence)
P(v) == [t |-> "p", v |-> v]
O(f) == [t |-> "o", f |-> f]
S(i) == [t |-> "s", ref |-> i]
St(i) == [t |-> "st", ref |-> i]
U == [t |-> "u"]
Null == [t |-> "n"]
A(f) == [t |-> "a", f |-> f]

\* Object.keys order: the model visits keys in this fixed order
KeyOrder == <<"id", "a", "b", "l", "x", "y", "0", "Has a space">>
KeySeq(D) == SelectSeq(KeyOrder, LAMBDA k: k \in D)

\* the keys of an array, as the names of its items
IdxName == <<"0", "1", "2", "3">>

\* JavaScript truthiness of a value
Truthy(val) ==
  CASE val.t = "u" -> FALSE
    [] val.t = "p" -> val.v # 0
    [] OTHER -> TRUE

\* ------------------------------------------- FnDoc: src/README.md:208-517
\* A space object is a record
\*   name, parent (0: none), kids (key -> P(v) or S(i)), subs (the identity of
\*   its _subscribers array), newer (_newerSpaces), sid (the identity of its
\*   _state object), isSpace (_isSpace is defined: the attribute loop is over),
\*   frozen (the constructor returned Object.freeze(space)).
\* Only newer changes after construction.  A constructor that throws leaves
\* its unfinished object in the heap, where nothing but the _parent of a
\* finished child can refer to it.

isSpace(h, i) == i \in 1..Len(h) /\ h[i].isSpace

RECURSIVE newestSpace(_, _)

\* a newestSpace that follows _newerSpaces one step only
newestSpaceOneStep(h, space) ==
  IF h[space].newer # <<>> THEN h[space].newer[1] ELSE space

newestSpace(h, space) ==
  IF h[space].newer # <<>> THEN newestSpace(h, h[space].newer[1]) ELSE space

\* space[key]: an attribute of a space, undefined when it has none
Attr(h, i, key) == IF key \in DOMAIN h[i].kids THEN h[i].kids[key] ELSE U

\* the fields of the frozen _state object of space i: each nested object is
\* the _state object of the child space at that key
StateFields(h, i) ==
  [k \in DOMAIN h[i].kids |->
     IF h[i].kids[k].t = "s" THEN St(h[i].kids[k].ref) ELSE h[i].kids[k]]

RECURSIVE toJSON(_, _)
toJSON(h, i) ==
  [t |-> IF h[i].isArray THEN "a" ELSE "o",
   f |-> [k \in DOMAIN h[i].kids |->
            IF h[i].kids[k].t = "s" THEN toJSON(h, h[i].kids[k].ref)
            ELSE h[i].kids[k]]]

\* an asObj that copies the attributes as fresh plain objects
asObjCopy(h, space) == toJSON(h, space).f

asObj(h, space) == h[space].kids

RECURSIVE Space(_, _, _, _, _), SetAttributes(_, _, _, _, _, _)

\* The attribute loop of the constructor (README.md:408-428) over keys, for
\* the space id under construction; kids are the attributes set so far.
SetAttributes(h, id, fields, oldSpace, keys, kids) ==
  IF keys = <<>> THEN [h |-> h, kids |-> kids, err |-> FALSE]
  ELSE
    LET key == Head(keys)
        val == fields[key]
        prevSpace == IF ~Truthy(oldSpace) THEN oldSpace
                     ELSE IF oldSpace.t = "s" THEN Attr(h, oldSpace.ref, key)
                     ELSE U
    IN  IF val.t = "s"
        THEN SetAttributes(h, id, fields, oldSpace, Tail(keys),
                           (key :> val) @@ kids)
        ELSE IF prevSpace.t = "s" /\ val.t = "st"
                /\ h[prevSpace.ref].sid = h[val.ref].sid
        THEN SetAttributes(h, id, fields, oldSpace, Tail(keys),
                           (key :> prevSpace) @@ kids)
        ELSE IF val.t \in {"o", "st"}
        THEN LET r == Space(h, val, key, id, prevSpace)
             IN  IF r.err THEN [h |-> r.h, kids |-> kids, err |-> TRUE]
                 ELSE SetAttributes(r.h, id, fields, oldSpace, Tail(keys),
                                    (key :> S(r.id)) @@ kids)
        ELSE SetAttributes(h, id, fields, oldSpace, Tail(keys),
                           (key :> val) @@ kids)

\* a constructor that records the new space in oldSpace._newerSpaces only
\* when oldSpace is a root
SpaceLinkedAtRoot(rp, id, old) ==
  IF rp.err THEN [h |-> rp.h, id |-> id, err |-> TRUE]
  ELSE [h |-> [rp.h EXCEPT ![id].parent = rp.id,
                           ![id].subs = rp.h[old].subs,
                           ![id].frozen = TRUE,
                           ![old].newer = IF rp.h[old].parent = 0
                                          THEN <<id>> \o @ ELSE @],
        id |-> id, err |-> FALSE]

\* The end of the constructor with an oldSpace (README.md:441-463), once the
\* newest parent has been built again around the new space (rp): the new
\* space takes that parent and the subscribers of oldSpace, goes to the front
\* of oldSpace._newerSpaces and is frozen.
SpaceLinked(rp, id, old) ==
  IF rp.err THEN [h |-> rp.h, id |-> id, err |-> TRUE]
  ELSE [h |-> [rp.h EXCEPT ![id].parent = rp.id,
                           ![id].subs = rp.h[old].subs,
                           ![id].frozen = TRUE,
                           ![old].newer = <<id>> \o @],
        id |-> id, err |-> FALSE]

\* The constructor after the attribute loop (README.md:429-463), h1 the heap
\* with the attributes and _isSpace set.
SpaceDefined(h1, id, name, parent, oldSpace) ==
  IF ~Truthy(oldSpace)
  THEN [h |-> [h1 EXCEPT ![id].parent = parent, ![id].frozen = TRUE],
        id |-> id, err |-> FALSE]
  ELSE IF oldSpace.t # "s"
  THEN \* oldSpace._newerSpaces is undefined: TypeError
       [h |-> h1, id |-> id, err |-> TRUE]
  ELSE IF parent # 0 /\ h1[parent].isSpace
  THEN SpaceLinked(
         Space(h1, O((name :> S(id)) @@ asObj(h1, newestSpace(h1, parent))),
               h1[newestSpace(h1, parent)].name,
               h1[newestSpace(h1, parent)].parent,
               S(newestSpace(h1, parent))),
         id, oldSpace.ref)
  ELSE SpaceLinked([h |-> h1, id |-> parent, err |-> FALSE], id, oldSpace.ref)

\* The constructor from the attribute loop on; r1 is what the loop gave.
SpaceAttributesSet(r1, id, name, parent, oldSpace) ==
  IF r1.err THEN [h |-> r1.h, id |-> id, err |-> TRUE]
  ELSE SpaceDefined([r1.h EXCEPT ![id].kids = r1.kids, ![id].isSpace = TRUE],
                    id, name, parent, oldSpace)

\* the fields of a state given to the constructor
FieldsOf(h, state) ==
  IF state.t = "st" THEN StateFields(h, state.ref) ELSE state.f

\* new Space(state, name, parent, oldSpace) (README.md:336-464): the heap
\* after the call, the identity of the new space, and whether it threw.
Space(h, state, name, parent, oldSpace) ==
  SpaceAttributesSet(
    SetAttributes(
      Append(h, [name |-> name, parent |-> 0, kids |-> <<>>,
                 subs |-> Len(h) + 1, newer |-> <<>>,
                 sid |-> IF state.t = "st" THEN h[state.ref].sid
                         ELSE Len(h) + 1,
                 isSpace |-> FALSE, frozen |-> FALSE, isArray |-> FALSE]),
      Len(h) + 1, FieldsOf(h, state), oldSpace,
      KeySeq(DOMAIN FieldsOf(h, state)), <<>>),
    Len(h) + 1, name, parent, oldSpace)

\* isSpace(oldSpace._parent) && newestSpace(oldSpace._parent)
NewestParent(h, oldSpace) ==
  IF isSpace(h, h[oldSpace].parent) THEN newestSpace(h, h[oldSpace].parent)
  ELSE 0

\* Object.assign(asObj(oldSpace), mergeObj)
Assign(obj, mergeObj) == mergeObj @@ obj

\* a mergeSpace that also writes the merged attributes into oldSpace
mergeSpaceInPlace(h, oldSpace, mergeObj) ==
  LET r == Space(h, O(Assign(asObj(h, oldSpace), mergeObj)), h[oldSpace].name,
                 NewestParent(h, oldSpace), S(oldSpace))
  IN  IF r.err THEN r
      ELSE [r EXCEPT !.h = [r.h EXCEPT ![oldSpace].kids = r.h[r.id].kids]]

\* a mergeSpace that merges an object into the sub-space its key holds
mergeSpaceDeep(h, oldSpace, mergeObj) ==
  Space(h, O([k \in DOMAIN mergeObj \cup DOMAIN asObj(h, oldSpace) |->
                IF k \notin DOMAIN mergeObj THEN asObj(h, oldSpace)[k]
                ELSE IF /\ k \in DOMAIN asObj(h, oldSpace)
                        /\ asObj(h, oldSpace)[k].t = "s"
                        /\ mergeObj[k].t = "o"
                THEN O(mergeObj[k].f
                       @@ toJSON(h, asObj(h, oldSpace)[k].ref).f)
                ELSE mergeObj[k]]),
        h[oldSpace].name, NewestParent(h, oldSpace), S(oldSpace))

mergeSpace(h, oldSpace, mergeObj) ==
  Space(h, O(Assign(asObj(h, oldSpace), mergeObj)), h[oldSpace].name,
        NewestParent(h, oldSpace), S(oldSpace))

replaceSpace(h, oldSpace, newState) ==
  Space(h, O(newState), h[oldSpace].name, NewestParent(h, oldSpace),
        S(oldSpace))

SubsOf(arr) == IF arr \in DOMAIN subscribers THEN subscribers[arr] ELSE <<>>

RECURSIVE notifySubscribers(_, _, _)

\* a notifySubscribers that calls the subscribers of the parent first
notifySubscribersParentFirst(h, newSpace, oldSpace) ==
  (IF h[newSpace].parent # 0
   THEN notifySubscribers(h, h[newSpace].parent, h[oldSpace].parent)
   ELSE <<>>)
  \o [i \in 1..Len(SubsOf(h[newSpace].subs)) |->
        [sub |-> SubsOf(h[newSpace].subs)[i], new |-> newSpace,
         old |-> oldSpace]]

notifySubscribers(h, newSpace, oldSpace) ==
  [i \in 1..Len(SubsOf(h[newSpace].subs)) |->
     [sub |-> SubsOf(h[newSpace].subs)[i], new |-> newSpace, old |-> oldSpace]]
  \o (IF h[newSpace].parent # 0
      THEN notifySubscribers(h, h[newSpace].parent, h[oldSpace].parent)
      ELSE <<>>)

\* notifySubscribers(newSpace, oldSpace, causedBy) on the space r that
\* mergeSpace or replaceSpace built, unless the constructor threw
\* (README.md:226-227, 266-269)
Notified(r, oldSpace) ==
  [h |-> r.h, id |-> r.id, err |-> r.err,
   log |-> IF r.err THEN <<>> ELSE notifySubscribers(r.h, r.id, oldSpace)]

\* rootOf(space) (README.md:495-502); 0 when it throws
RECURSIVE rootOf(_, _)
rootOf(h, space) ==
  IF space = 0 \/ ~h[space].isSpace THEN 0
  ELSE IF h[space].parent # 0
  THEN rootOf(h, h[newestSpace(h, space)].parent)
  ELSE newestSpace(h, space)

\* a mergeAndNotifySubscribers that merges into the space it is given
mergeAndNotifyStale(h, space, mergeObj) ==
  LET r == mergeSpace(h, space, mergeObj)
  IN  [h |-> r.h, id |-> r.id, err |-> r.err,
       log |-> IF r.err THEN <<>> ELSE notifySubscribers(r.h, r.id, space)]

\* function space(mergeObj) / attrSetter (README.md:265-272, 343-371)
mergeAndNotifySubscribers(h, space, mergeObj) ==
  Notified(mergeSpace(h, newestSpace(h, space), mergeObj),
           newestSpace(h, space))

\* a wrapParam that leaves the notification to the end of the action
wrapParamSilent(h, space, param, arg) ==
  LET s == newestSpace(h, space)
      r == IF param = "merge" THEN mergeSpace(h, s, arg)
           ELSE replaceSpace(h, s, arg)
  IN  [h |-> r.h, id |-> r.id, err |-> r.err, log |-> <<>>]

\* a wrapParam that merges into the space the action was started on
wrapParamCaptured(h, space, param, arg) ==
  Notified(IF param = "merge" THEN mergeSpace(h, space, arg)
           ELSE replaceSpace(h, space, arg),
           space)

\* wrapParam(space, param, causedBy)(arg) (README.md:223-230)
wrapParam(h, space, param, arg) ==
  Notified(IF param = "merge" THEN mergeSpace(h, newestSpace(h, space), arg)
           ELSE replaceSpace(h, newestSpace(h, space), arg),
           newestSpace(h, space))

\* the invocations of one notification pass, marked with the pass they are in
Pass(lg, k) ==
  [i \in 1..Len(lg) |->
     [sub |-> lg[i].sub, new |-> lg[i].new, old |-> lg[i].old, pass |-> k]]

\* The body of a custom action is a sequence of calls, each
\*   [f |-> "merge" | "replace", arg |-> obj]   merge(obj) / replace(obj)
\*   [f |-> "root", arg |-> obj]                rootSpace(obj)
\* of the action params (README.md:243-251).  A call that throws ends the
\* action.  k is the number of the call.
RECURSIVE RunAction(_, _, _, _, _, _)

\* the action goes on after call k, which gave r
Called(r, space, rootSpace, body, k, lg) ==
  IF r.err THEN [h |-> r.h, log |-> lg, err |-> TRUE]
  ELSE RunAction(r.h, space, rootSpace, body, k + 1, lg \o Pass(r.log, k))

RunAction(h, space, rootSpace, body, k, lg) ==
  IF k > Len(body) THEN [h |-> h, log |-> lg, err |-> FALSE]
  ELSE Called(IF body[k].f = "root"
              THEN mergeAndNotifySubscribers(h, rootSpace, body[k].arg)
              ELSE wrapParam(h, space, body[k].f, body[k].arg),
              space, rootSpace, body, k, lg)

\* return newestSpace(space) (README.md:392), r what the action left
Returned(r, space) ==
  [h |-> r.h, id |-> IF r.err THEN 0 ELSE newestSpace(r.h, space),
   log |-> r.log, err |-> r.err]

\* actionWrapper (README.md:377-392) of an action that makes the calls of body
\* and returns nothing; getActionParams takes rootOf(space) at once
actionWrapper(h, space, body) ==
  IF rootOf(h, space) = 0
  THEN [h |-> h, id |-> 0, log |-> <<>>, err |-> TRUE]
  ELSE Returned(RunAction(h, space, rootOf(h, space), body, 1, <<>>), space)

\* ------------------------------------ subscribers that cancel or replace
\* The subscriber callbacks of the library that test/main.js:914-961 runs
\* take { newSpace, oldSpace, causedBy, cancel } and may return an object.
\* That notifySubscribers is not among the sources; it is modelled here from
\* spec.md section 4.3 over the spaces of README.md:208-517:
\*   - the subscribers of a space are called in registration order;
\*   - an object a subscriber returns is made into a space that replaces
\*     newSpace, and the subscribers called after it receive that space;
\*   - after cancel() no subscriber is called any more, on this space or on
\*     a space above it;
\*   - otherwise the subscribers of the parent of the last replacement are
\*     called next, with the parent of oldSpace as their oldSpace.
\* role[u] says what subscriber u does: "plain" returns nothing, "cancel"
\* calls cancel(), "upper" returns { ...newSpace, x: Upper }.

\* the value the replacing subscriber writes (test/main.js:941-944)
Upper == 9

Entry(sub, new, old) == [sub |-> sub, new |-> new, old |-> old]

RECURSIVE notifyRouted(_, _, _, _, _, _, _)

\* subscriber k returned an object, which the constructor made into r
Replaced(r, rl, oldSpace, subs, k, lg) ==
  IF r.err THEN [h |-> r.h, log |-> lg]
  ELSE notifyRouted(r.h, rl, r.id, oldSpace, subs, k + 1, lg)

\* a router on which cancel() only skips the subscribers of the same space
notifyRoutedCancelLevel(h, rl, newSpace, oldSpace, subs, k, lg) ==
  IF k > Len(subs) \/ rl[subs[k]] = "cancel"
  THEN IF h[newSpace].parent = 0 \/ h[oldSpace].parent = 0
       THEN [h |-> h,
             log |-> IF k > Len(subs) THEN lg
                     ELSE Append(lg, Entry(subs[k], newSpace, oldSpace))]
       ELSE notifyRouted(h, rl, h[newSpace].parent, h[oldSpace].parent,
                         SubsOf(h[h[newSpace].parent].subs), 1,
                         IF k > Len(subs) THEN lg
                         ELSE Append(lg, Entry(subs[k], newSpace, oldSpace)))
  ELSE IF rl[subs[k]] = "upper"
  THEN Replaced(replaceSpace(h, newSpace,
                             Assign(asObj(h, newSpace), [x |-> P(Upper)])),
                rl, oldSpace, subs, k,
                Append(lg, Entry(subs[k], newSpace, oldSpace)))
  ELSE notifyRouted(h, rl, newSpace, oldSpace, subs, k + 1,
                    Append(lg, Entry(subs[k], newSpace, oldSpace)))

\* a router that hands the space of the update to every subscriber and
\* goes on to its parent, whatever the subscribers returned
notifyRoutedUnreplaced(h, rl, newSpace, oldSpace, subs, k, lg) ==
  IF k > Len(subs)
  THEN IF h[newSpace].parent = 0 \/ h[oldSpace].parent = 0
       THEN [h |-> h, log |-> lg]
       ELSE notifyRouted(h, rl, h[newSpace].parent, h[oldSpace].parent,
                         SubsOf(h[h[newSpace].parent].subs), 1, lg)
  ELSE IF rl[subs[k]] = "cancel"
  THEN [h |-> h, log |-> Append(lg, Entry(subs[k], newSpace, oldSpace))]
  ELSE notifyRouted(h, rl, newSpace, oldSpace, subs, k + 1,
                    Append(lg, Entry(subs[k], newSpace, oldSpace)))

\* notifySubscribers(newSpace, oldSpace, causedBy) from subscriber k of
\* newSpace on; lg is the sequence of calls made so far
notifyRouted(h, rl, newSpace, oldSpace, subs, k, lg) ==
  IF k > Len(subs)
  THEN IF h[newSpace].parent = 0 \/ h[oldSpace].parent = 0
       THEN [h |-> h, log |-> lg]
       ELSE notifyRouted(h, rl, h[newSpace].parent, h[oldSpace].parent,
                         SubsOf(h[h[newSpace].parent].subs), 1, lg)
  ELSE IF rl[subs[k]] = "cancel"
  THEN [h |-> h, log |-> Append(lg, Entry(subs[k], newSpace, oldSpace))]
  ELSE IF rl[subs[k]] = "upper"
  THEN Replaced(replaceSpace(h, newSpace,
                             Assign(asObj(h, newSpace), [x |-> P(Upper)])),
                rl, oldSpace, subs, k,
                Append(lg, Entry(subs[k], newSpace, oldSpace)))
  ELSE notifyRouted(h, rl, newSpace, oldSpace, subs, k + 1,
                    Append(lg, Entry(subs[k], newSpace, oldSpace)))

\* the subscribers are told of the space r that mergeSpace built
Routed(r, rl, oldSpace) ==
  IF r.err THEN [h |-> r.h, id |-> r.id, err |-> TRUE, log |-> <<>>]
  ELSE [h |-> notifyRouted(r.h, rl, r.id, oldSpace,
                           SubsOf(r.h[r.id].subs), 1, <<>>).h,
        id |-> r.id, err |-> FALSE,
        log |-> notifyRouted(r.h, rl, r.id, oldSpace,
                             SubsOf(r.h[r.id].subs), 1, <<>>).log]

\* space(mergeObj) with such subscribers
mergeAndRoute(h, rl, space, mergeObj) ==
  Routed(mergeSpace(h, newestSpace(h, space), mergeObj), rl,
         newestSpace(h, space))

\* --------------------------------------- FnLib: src/lib/Space.js:440-776
\* The space objects are records as above, with one more field: seen, the
\* space was returned to calling code or passed to a subscriber.  A state is
\* O(f) or A(f); the attributes (kids) of an array space are a sequence.
\* toJSON gives the plain value of the attributes for the _state object.

RECURSIVE LibSpace(_, _, _, _, _), LibSetAttributes(_, _, _, _, _)

\* the attribute loop of the constructor (lib/Space.js:678-691)
LibSetAttributes(h, id, fields, keys, kids) ==
  IF keys = <<>> THEN [h |-> h, kids |-> kids]
  ELSE
    LET key == Head(keys)
        val == fields[key]
    IN  IF val.t \in {"o", "a"}
        THEN LET r == LibSpace(h, val,
                               IF h[id].isArray THEN IdxName[key] ELSE key,
                               id, 0)
             IN  LibSetAttributes(r.h, id, fields, Tail(keys),
                                  IF h[id].isArray THEN Append(kids, S(r.id))
                                  ELSE (key :> S(r.id)) @@ kids)
        ELSE LibSetAttributes(h, id, fields, Tail(keys),
                              IF h[id].isArray THEN Append(kids, val)
                              ELSE (key :> val) @@ kids)

\* new Space(state, name, parent, oldSpace) (lib/Space.js:601-719);
\* oldSpace is 0 when the call passes none
LibSpace(h, state, name, parent, oldSpace) ==
  LET id == Len(h) + 1
      h0 == Append(h, [name |-> name, parent |-> parent, kids |-> <<>>,
                       subs |-> IF oldSpace # 0 THEN h[oldSpace].subs ELSE id,
                       newer |-> <<>>, sid |-> id, isSpace |-> FALSE,
                       frozen |-> FALSE, isArray |-> state.t = "a",
                       seen |-> FALSE])
      r == LibSetAttributes(h0, id, state.f,
                            IF state.t = "a" THEN [i \in 1..Len(state.f) |-> i]
                            ELSE KeySeq(DOMAIN state.f), <<>>)
  IN  [h |-> [r.h EXCEPT ![id].kids = r.kids, ![id].isSpace = TRUE,
                         ![id].frozen = TRUE],
       id |-> id, err |-> FALSE]

\* a mergeSpace that makes a new version of an array space, with the same
\* items, where mergeSpace throws
LibMergeSpaceAnyKind(h, oldSpace, mergeObj) ==
  LibSpace(h, IF h[oldSpace].isArray THEN toJSON(h, oldSpace)
              ELSE O(mergeObj @@ toJSON(h, oldSpace).f), h[oldSpace].name,
           h[oldSpace].parent, oldSpace)

\* mergeSpace(oldSpace, mergeObj) (lib/Space.js:530-541)
LibMergeSpace(h, oldSpace, mergeObj) ==
  IF h[oldSpace].isArray THEN [h |-> h, id |-> 0, err |-> TRUE]
  ELSE LibSpace(h, O(mergeObj @@ toJSON(h, oldSpace).f), h[oldSpace].name,
                h[oldSpace].parent, oldSpace)

\* replaceSpace(oldSpace, newState) (lib/Space.js:551-553)
LibReplaceSpace(h, oldSpace, newState) ==
  LibSpace(h, newState, h[oldSpace].name, h[oldSpace].parent, oldSpace)

\* notifySubscribers (lib/Space.js:555-595), and mergeAndNotifySubscribers
\* (lib/Space.js:522-528) and replaceAndNotifySubscribers
\* (lib/Space.js:543-549), which it calls on the parent
RECURSIVE LibNotifySubscribers(_, _, _), LibMergeAndNotifySubscribers(_, _, _)
RECURSIVE LibReplaceAndNotifySubscribers(_, _, _)
LibNotifySubscribers(h, newSpace, oldSpace) ==
  LET lg == [i \in 1..Len(SubsOf(h[newSpace].subs)) |->
               [sub |-> SubsOf(h[newSpace].subs)[i], new |-> newSpace,
                old |-> oldSpace]]
  IN  IF h[newSpace].parent # 0
      THEN LET r == IF h[h[newSpace].parent].isArray
                    THEN LibReplaceAndNotifySubscribers(
                           h, h[newSpace].parent, A(<<S(newSpace)>>))
                    ELSE LibMergeAndNotifySubscribers(
                           h, h[newSpace].parent,
                           (h[newSpace].name :> toJSON(h, newSpace)))
           IN  [h |-> r.h, log |-> lg \o r.log]
      ELSE [h |-> h, log |-> lg]

LibMergeAndNotifySubscribers(h, oldSpace, mergeObj) ==
  LET r == LibMergeSpace(h, oldSpace, mergeObj)
      n == LibNotifySubscribers(r.h, r.id, oldSpace)
  IN  IF r.err THEN [h |-> h, id |-> 0, log |-> <<>>, err |-> TRUE]
      ELSE [h |-> n.h, id |-> r.id, log |-> n.log, err |-> FALSE]

LibReplaceAndNotifySubscribers(h, oldSpace, newState) ==
  LET r == LibReplaceSpace(h, oldSpace, newState)
      n == LibNotifySubscribers(r.h, r.id, oldSpace)
  IN  [h |-> n.h, id |-> r.id, log |-> n.log, err |-> FALSE]

\* rootOf(space) (lib/Space.js:758-765)
RECURSIVE LibRootOf(_, _)
LibRootOf(h, space) ==
  IF h[space].parent # 0 THEN LibRootOf(h, h[space].parent) ELSE space

\* getRootSpace(space) (lib/Space.js:513-516)
RECURSIVE getRootSpace(_, _)
getRootSpace(h, space) ==
  IF h[space].parent # 0 THEN getRootSpace(h, h[space].parent)
  ELSE newestSpace(h, space)

\* a wrapParam that works on the space the action was called on, not on
\* its newest version
LibWrapParamCaptured(h, space, param, arg) ==
  LET s == space
      r == IF param = "merge" THEN LibMergeSpace(h, s, arg)
           ELSE IF param \in {"push", "unshift", "remove"} /\ ~h[s].isArray
           THEN [h |-> h, id |-> 0, err |-> TRUE]
           ELSE IF param = "push"
           THEN LibSpace(h, A(Append(toJSON(h, s).f, arg)), h[s].name,
                         h[s].parent, s)
           ELSE IF param = "unshift"
           THEN LibReplaceSpace(h, s, A(<<arg>> \o toJSON(h, s).f))
           ELSE IF param = "remove"
           THEN IF \E i \in DOMAIN h[s].kids : h[s].kids[i].t # "s"
                THEN [h |-> h, id |-> 0, err |-> TRUE]
                ELSE LibSpace(
                       h, A(SelectSeq(toJSON(h, s).f,
                                      LAMBDA item : item.t # "o"
                                        \/ "id" \notin DOMAIN item.f
                                        \/ item.f["id"] \notin arg)),
                       h[s].name, h[s].parent, s)
           ELSE LibReplaceSpace(h, s, O(arg))
  IN  IF r.err THEN [h |-> h, id |-> 0, log |-> <<>>, err |-> TRUE]
      ELSE [h |-> [r.h EXCEPT ![s].newer = <<r.id>> \o @], id |-> r.id,
            log |-> <<>>, err |-> FALSE]

\* a wrapParam that stores the new space as the only newer version of the
\* space the action was called on (space._newerSpaces = [newSpace])
LibWrapParamOverwriting(h, space, param, arg) ==
  LET s == newestSpace(h, space)
      r == IF param = "merge" THEN LibMergeSpace(h, s, arg)
           ELSE IF param \in {"push", "unshift", "remove"} /\ ~h[s].isArray
           THEN [h |-> h, id |-> 0, err |-> TRUE]
           ELSE IF param = "push"
           THEN LibSpace(h, A(Append(toJSON(h, s).f, arg)), h[s].name,
                         h[s].parent, s)
           ELSE IF param = "unshift"
           THEN LibReplaceSpace(h, s, A(<<arg>> \o toJSON(h, s).f))
           ELSE IF param = "remove"
           THEN IF \E i \in DOMAIN h[s].kids : h[s].kids[i].t # "s"
                THEN [h |-> h, id |-> 0, err |-> TRUE]
                ELSE LibSpace(
                       h, A(SelectSeq(toJSON(h, s).f,
                                      LAMBDA item : item.t # "o"
                                        \/ "id" \notin DOMAIN item.f
                                        \/ item.f["id"] \notin arg)),
                       h[s].name, h[s].parent, s)
           ELSE LibReplaceSpace(h, s, O(arg))
  IN  IF r.err THEN [h |-> h, id |-> 0, log |-> <<>>, err |-> TRUE]
      ELSE [h |-> [r.h EXCEPT ![space].newer = <<r.id>>], id |-> r.id,
            log |-> <<>>, err |-> FALSE]

\* wrapParam(space, param)(arg) (lib/Space.js:480-487) with the params
\* push (455-459), remove (461-471), unshift (473-478), mergeSpace and
\* replaceSpace.  The shouldRemove given to remove is true of the items
\* whose id is in arg; an item that is no space has no toJSON: remove throws.
LibWrapParam(h, space, param, arg) ==
  LET s == newestSpace(h, space)
      r == IF param = "merge" THEN LibMergeSpace(h, s, arg)
           ELSE IF param \in {"push", "unshift", "remove"} /\ ~h[s].isArray
           THEN [h |-> h, id |-> 0, err |-> TRUE]
           ELSE IF param = "push"
           THEN LibSpace(h, A(Append(toJSON(h, s).f, arg)), h[s].name,
                         h[s].parent, s)
           ELSE IF param = "unshift"
           THEN LibReplaceSpace(h, s, A(<<arg>> \o toJSON(h, s).f))
           ELSE IF param = "remove"
           THEN IF \E i \in DOMAIN h[s].kids : h[s].kids[i].t # "s"
                THEN [h |-> h, id |-> 0, err |-> TRUE]
                ELSE LibSpace(
                       h, A(SelectSeq(toJSON(h, s).f,
                                      LAMBDA item : item.t # "o"
                                        \/ "id" \notin DOMAIN item.f
                                        \/ item.f["id"] \notin arg)),
                       h[s].name, h[s].parent, s)
           ELSE LibReplaceSpace(h, s, O(arg))
  IN  IF r.err THEN [h |-> h, id |-> 0, log |-> <<>>, err |-> TRUE]
      ELSE [h |-> [r.h EXCEPT ![s].newer = <<r.id>> \o @], id |-> r.id,
            log |-> <<>>, err |-> FALSE]

\* the calls of an action body (see RunAction), lib/Space.js:494-511
RECURSIVE LibRunAction(_, _, _, _, _, _)
LibRunAction(h, space, rootSpace, body, k, lg) ==
  IF k > Len(body) THEN [h |-> h, log |-> lg, err |-> FALSE]
  ELSE LET c == body[k]
           r == IF c.f = "root"
                THEN LibMergeAndNotifySubscribers(h, rootSpace, c.arg)
                ELSE LibWrapParam(h, space, c.f, c.arg)
       IN  IF r.err THEN [h |-> r.h, log |-> lg, err |-> TRUE]
           ELSE LibRunAction([r.h EXCEPT ![r.id].seen = TRUE], space,
                             rootSpace, body, k + 1, lg \o Pass(r.log, k))

\* the action made the calls r and the notification n came after them
LibNotified(n, r, body) ==
  [h |-> n.h, log |-> r.log \o Pass(n.log, Len(body) + 1), err |-> FALSE]

\* the end of actionWrapper (lib/Space.js:647-667) once the action, which
\* made the calls r of body, has returned ret: null or undefined
LibReturned(r, space, body, ret) ==
  IF r.err THEN [h |-> r.h, log |-> r.log, err |-> TRUE]
  ELSE IF ret.t = "n" /\ r.h[space].parent # 0
          /\ r.h[r.h[space].parent].isArray
  THEN LibNotified(LibReplaceAndNotifySubscribers(
                     r.h, r.h[space].parent,
                     A(SelectSeq(r.h[r.h[space].parent].kids,
                                 LAMBDA v : v # S(space)))), r, body)
  ELSE IF ret.t = "u"
  THEN LibNotified(LibNotifySubscribers(r.h, newestSpace(r.h, space), space),
                   r, body)
  ELSE [h |-> r.h, log |-> r.log, err |-> FALSE]

\* actionWrapper (lib/Space.js:642-669) of an action that makes the calls of
\* body and returns ret
LibActionWrapper(h, space, body, ret) ==
  LibReturned(LibRunAction(h, space, getRootSpace(h, space), body, 1, <<>>),
              space, body, ret)

\* ----------------------------------------- Class: src/lib/Space.js:1-438
\* In a class-style behaviour the heap holds the Space objects,
\*   [kind |-> "space", name, nextParent (0: null), preState (O(f) or A(f),
\*    with S(i) for an attached sub-space), generatedState (the identity of
\*    a state object), hasKey (the space has the key getter of a list item)],
\* and the frozen state objects generateState has made,
\*   [kind |-> "state", val |-> the plain value,
\*    frozen |-> whether every object and array of it is frozen].
\* The subscribers array of space i is subscribers[i].

\* generateState(state) (lib/Space.js:73-96): the plain value
RECURSIVE generateState(_, _)
generateState(h, state) ==
  IF state.t = "s" THEN generateState(h, h[state.ref].preState)
  ELSE
    [t |-> state.t,
     f |-> [k \in DOMAIN state.f |->
              IF state.f[k].t = "s"
              THEN generateState(h, h[state.f[k].ref].preState)
              ELSE IF state.f[k].t = "a"
              THEN A([i \in DOMAIN state.f[k].f |->
                        IF state.f[k].f[i].t = "o"
                        THEN generateState(h, state.f[k].f[i])
                        ELSE state.f[k].f[i]])
              ELSE state.f[k]]]

\* Object.freeze in generateState (lib/Space.js:73-96): TRUE iff every object
\* and array of the value generateState(state) returns is frozen. Line 95
\* freezes the value itself; the value of an attached space is another result
\* of generateState (line 84); the array item.map builds (lines 86-88) and
\* the copy Object.assign makes of a plain object (line 90) are stored as
\* they are, without a call of Object.freeze.
RECURSIVE deepFrozen(_, _)
deepFrozen(h, state) ==
  IF state.t = "s" THEN deepFrozen(h, h[state.ref].preState)
  ELSE \A k \in DOMAIN state.f :
         IF state.f[k].t = "s"
         THEN deepFrozen(h, h[state.f[k].ref].preState)
         ELSE state.f[k].t \notin {"a", "o"}

\* space.generatedState = generateState(...): a new frozen object
Regenerate(h, space) ==
  [Append(h, [kind |-> "state", val |-> generateState(h, h[space].preState),
              frozen |-> deepFrozen(h, h[space].preState)])
     EXCEPT ![space].generatedState = Len(h) + 1]

\* space.key, the getter of defineKeyGetter (lib/Space.js:63-70):
\* space.state.id; undefined on a space without the getter
Key(h, space) ==
  IF h[space].hasKey /\ h[h[space].generatedState].val.t = "o"
     /\ "id" \in DOMAIN h[h[space].generatedState].val.f
  THEN h[h[space].generatedState].val.f["id"]
  ELSE U

\* arr[i].id || arr[i].key of findIndexById (lib/Space.js:41)
ItemId(h, item) ==
  IF item.t = "o" /\ "id" \in DOMAIN item.f THEN item.f["id"]
  ELSE IF item.t = "s" THEN Key(h, item.ref)
  ELSE U

\* findIndexById(arr, id) (lib/Space.js:39-45); 0 stands for -1
findIndexById(h, arr, id) ==
  IF \E i \in 1..Len(arr) : ItemId(h, arr[i]) = id
  THEN CHOOSE i \in 1..Len(arr) :
         /\ ItemId(h, arr[i]) = id
         /\ \A j \in 1..(i - 1) : ItemId(h, arr[j]) # id
  ELSE 0

\* a notifyChange that calls the subscribers of a space last to first
RECURSIVE notifyChangeReversed(_, _)
notifyChangeReversed(h, space) ==
  LET h1 == Regenerate(h, space)
      n == Len(SubsOf(space))
      lg == [i \in 1..n |->
               [sub |-> SubsOf(space)[n + 1 - i], new |-> space, old |-> 0]]
  IN  IF h1[space].nextParent # 0
      THEN LET r == notifyChangeReversed(h1, h1[space].nextParent)
           IN  [h |-> r.h, log |-> lg \o r.log, err |-> FALSE]
      ELSE [h |-> h1, log |-> lg, err |-> FALSE]

\* a notifyChange that regenerates the state of the root only
RECURSIVE notifyChangeRootOnly(_, _)
notifyChangeRootOnly(h, space) ==
  LET lg == [i \in 1..Len(SubsOf(space)) |->
               [sub |-> SubsOf(space)[i], new |-> space, old |-> 0]]
  IN  IF h[space].nextParent # 0
      THEN LET r == notifyChangeRootOnly(h, h[space].nextParent)
           IN  [h |-> r.h, log |-> lg \o r.log, err |-> FALSE]
      ELSE [h |-> Regenerate(h, space), log |-> lg, err |-> FALSE]

\* notifyChange(space, causedBy) (lib/Space.js:50-61)
RECURSIVE notifyChange(_, _)
notifyChange(h, space) ==
  LET h1 == Regenerate(h, space)
      lg == [i \in 1..Len(SubsOf(space)) |->
               [sub |-> SubsOf(space)[i], new |-> space, old |-> 0]]
  IN  IF h1[space].nextParent # 0
      THEN LET r == notifyChange(h1, h1[space].nextParent)
           IN  [h |-> r.h, log |-> lg \o r.log, err |-> FALSE]
      ELSE [h |-> h1, log |-> lg, err |-> FALSE]

\* applyMerge(state, mergeObj) (lib/Space.js:98-143).  It writes into state
\* as it goes: the result holds what was written, also when it threw (err).
RECURSIVE applyMerge(_, _, _), applyMergeKeys(_, _, _, _)
RECURSIVE applyMergeItems(_, _, _, _, _)
RECURSIVE applyMergeItemsByIndex(_, _, _, _, _)

\* a doMerge that puts the merged value in the place of what was there
doMergeReplacing(h, stateVal, mergeVal) ==
  [h |-> h, val |-> mergeVal, err |-> FALSE]

\* a doMerge that leaves in place what a null would be merged onto
doMergeSkippingNull(h, stateVal, mergeVal) ==
  IF mergeVal.t = "n" THEN [h |-> h, val |-> U, err |-> FALSE]
  ELSE IF stateVal.t = "s"
  THEN LET r == applyMerge(h, h[stateVal.ref].preState, mergeVal)
       IN  [h |-> IF r.err
                  THEN [r.h EXCEPT ![stateVal.ref].preState = r.state]
                  ELSE Regenerate(
                         [r.h EXCEPT ![stateVal.ref].preState = r.state],
                         stateVal.ref),
            val |-> stateVal, err |-> r.err]
  ELSE IF stateVal.t = "o" /\ mergeVal.t = "o" /\ DOMAIN mergeVal.f # {}
  THEN LET r == applyMerge(h, stateVal, mergeVal)
       IN  [h |-> r.h, val |-> r.state, err |-> r.err]
  ELSE [h |-> h, val |-> mergeVal, err |-> FALSE]

\* doMerge(stateVal, mergeVal) (lib/Space.js:99-113); val is what it returns
doMerge(h, stateVal, mergeVal) ==
  IF mergeVal.t # "n" /\ stateVal.t = "s"
  THEN LET r == applyMerge(h, h[stateVal.ref].preState, mergeVal)
       IN  [h |-> IF r.err
                  THEN [r.h EXCEPT ![stateVal.ref].preState = r.state]
                  ELSE Regenerate(
                         [r.h EXCEPT ![stateVal.ref].preState = r.state],
                         stateVal.ref),
            val |-> stateVal, err |-> r.err]
  ELSE IF stateVal.t = "o" /\ mergeVal.t = "o" /\ DOMAIN mergeVal.f # {}
  THEN LET r == applyMerge(h, stateVal, mergeVal)
       IN  [h |-> r.h, val |-> r.state, err |-> r.err]
  ELSE [h |-> h, val |-> mergeVal, err |-> FALSE]

\* the loop over Object.keys(mergeObj) (lib/Space.js:136-142)
applyMergeKeys(h, state, mergeObj, keys) ==
  IF keys = <<>> THEN [h |-> h, state |-> state, err |-> FALSE]
  ELSE
    LET key == Head(keys)
        r == doMerge(h, IF key \in DOMAIN state.f THEN state.f[key] ELSE U,
                     mergeObj.f[key])
        st == IF r.val.t = "u" THEN state
              ELSE IF key \in DOMAIN state.f
              THEN [state EXCEPT !.f[key] = r.val]
              ELSE [state EXCEPT !.f = (key :> r.val) @@ @]
    IN  IF r.err THEN [h |-> r.h, state |-> st, err |-> TRUE]
        ELSE applyMergeKeys(r.h, st, mergeObj, Tail(keys))

\* an applyMergeItems that takes the existing item at the position of the
\* merged item, not the one with its id
applyMergeItemsByIndex(h, copy, done, mergeObj, i) ==
  IF i > Len(mergeObj.f) THEN [h |-> h, state |-> A(done), err |-> FALSE]
  ELSE
    LET existing == IF i > Len(copy) THEN U ELSE copy[i]
        r == doMerge(h, existing, mergeObj.f[i])
    IN  IF r.err THEN [h |-> r.h, state |-> A(Append(done, r.val)), err |-> TRUE]
        ELSE applyMergeItemsByIndex(r.h, copy,
                             Append(done, IF r.val.t = "u" THEN existing
                                          ELSE r.val), mergeObj, i + 1)

\* the loop over the items of an array mergeObj (lib/Space.js:124-134):
\* copy is the array as it was, done the items written so far
applyMergeItems(h, copy, done, mergeObj, i) ==
  IF i > Len(mergeObj.f) THEN [h |-> h, state |-> A(done), err |-> FALSE]
  ELSE
    LET index == findIndexById(h, copy, IF mergeObj.f[i].t = "o"
                                          /\ "id" \in DOMAIN mergeObj.f[i].f
                                        THEN mergeObj.f[i].f["id"] ELSE U)
        existing == IF index = 0 THEN U ELSE copy[index]
        r == doMerge(h, existing, mergeObj.f[i])
    IN  IF r.err THEN [h |-> r.h, state |-> A(Append(done, r.val)), err |-> TRUE]
        ELSE applyMergeItems(r.h, copy,
                             Append(done, IF r.val.t = "u" THEN existing
                                          ELSE r.val), mergeObj, i + 1)

\* the second loop of applyMerge, after the items of an array were written
ItemsMerged(r, mergeObj) ==
  IF r.err THEN r
  ELSE applyMergeKeys(r.h, r.state, mergeObj,
                      [i \in 1..Len(mergeObj.f) |-> i])

applyMerge(h, state, mergeObj) ==
  IF (mergeObj.t = "a") # (state.t = "a") \/ mergeObj.t \in {"u", "n"}
  THEN [h |-> h, state |-> state, err |-> TRUE]
  ELSE IF mergeObj.t = "a"
  THEN ItemsMerged(applyMergeItems(h, state.f, <<>>, mergeObj, 1), mergeObj)
  ELSE IF mergeObj.t = "o"
  THEN applyMergeKeys(h, state, mergeObj, KeySeq(DOMAIN mergeObj.f))
  ELSE [h |-> h, state |-> state, err |-> FALSE]

\* list.splice(index, 1) (lib/Space.js:157); index 0 stands for -1, which
\* splice counts from the end
Splice(list, index) ==
  IF list = <<>> THEN list
  ELSE IF index = 0 THEN SubSeq(list, 1, Len(list) - 1)
  ELSE SubSeq(list, 1, index - 1) \o SubSeq(list, index + 1, Len(list))

\* the end of mergeState (lib/Space.js:169-176): space.preState is the
\* copy applyMerge wrote into, r what applyMerge gave
Merged(r, space) ==
  IF r.err
  THEN [h |-> [r.h EXCEPT ![space].preState = r.state], log |-> <<>>,
        err |-> TRUE]
  ELSE notifyChange([r.h EXCEPT ![space].preState = r.state], space)

\* mergeState(space, mergeObj, causedBy) (lib/Space.js:145-177)
mergeState(h, space, mergeObj) ==
  IF mergeObj.t = "u" THEN [h |-> h, log |-> <<>>, err |-> FALSE]
  ELSE IF mergeObj.t = "n" /\ Truthy(Key(h, space))
  THEN IF h[h[space].nextParent].preState.t # "a"
       THEN [h |-> h, log |-> <<>>, err |-> TRUE]
       ELSE notifyChange(
              [h EXCEPT ![h[space].nextParent].preState.f =
                 Splice(@, findIndexById(h, @, Key(h, space)))], space)
  ELSE IF h[space].preState.t = "o" /\ mergeObj.t = "a"
  THEN notifyChange([h EXCEPT ![space].preState = mergeObj], space)
  ELSE Merged(applyMerge(h, h[space].preState, mergeObj), space)

\* new Space(initialState, options, nextParent) (lib/Space.js:191-248)
NewSpace(h, initialState, nextParent) ==
  Append(Append(h, [kind |-> "state", val |-> generateState(h, initialState),
                    frozen |-> deepFrozen(h, initialState)]),
         [kind |-> "space", name |-> "root", nextParent |-> nextParent,
          preState |-> initialState, generatedState |-> Len(h) + 1,
          hasKey |-> FALSE])

\* ------------------------------------------------------------------ inputs
Obj1 == O([x |-> P(1)])
Obj2 == O([x |-> P(2), l |-> O([x |-> P(2)])])

\* the initial value of the root: { a: { l: { x: 0 }, x: 0 }, b: { x: 0 }, x: 0 }
InitialState ==
  O([a |-> O([l |-> O([x |-> P(0)]), x |-> P(0)]),
     b |-> O([x |-> P(0)]),
     x |-> P(0)])

\* merge objects built from literals
Patches == { [a |-> Obj1], [a |-> Obj2] }

\* merge objects a caller can pass to the space n it holds: literals, or the
\* state object it reads from n's own child, { a: n.a.toJSON() }
PatchesFor(h, n) ==
  Patches \cup
  (IF Attr(h, n, "a").t = "s" THEN {[a |-> St(Attr(h, n, "a").ref)]} ELSE {})

\* quick setters n(key)(value)
Setters == { <<"x", 1>>, <<"x", 2>>, <<"a", 1>> }

Call(f, arg) == [f |-> f, arg |-> arg]
Bodies ==
  { <<>>,
    <<Call("replace", [y |-> P(2)])>>,
    <<Call("merge", [y |-> P(1)]), Call("merge", [x |-> P(2)])>>,
    <<Call("merge", [y |-> P(1)]), Call("root", [y |-> P(2)])>> }
Cost(body) == IF Len(body) = 0 THEN 1 ELSE Len(body)

\* ------------------------------------------------------- paths and values
\* the keys from the root down to space i (_name along _parent)
RECURSIVE Path(_, _)
Path(h, i) ==
  IF h[i].parent = 0 THEN <<>> ELSE Append(Path(h, h[i].parent), h[i].name)

IsPrefix(p, q) == Len(p) <= Len(q) /\ SubSeq(q, 1, Len(p)) = p
Comparable(p, q) == IsPrefix(p, q) \/ IsPrefix(q, p)

\* what a plain value holds at a path
RECURSIVE GetPath(_, _)
GetPath(val, path) ==
  IF path = <<>> THEN val
  ELSE IF val.t = "o" /\ Head(path) \in DOMAIN val.f
  THEN GetPath(val.f[Head(path)], Tail(path))
  ELSE U

\* the paths of the primitives / of the objects in a plain value
RECURSIVE Leaves(_)
Leaves(val) ==
  IF val.t = "o"
  THEN UNION {{<<k>> \o q : q \in Leaves(val.f[k])} : k \in DOMAIN val.f}
  ELSE {<<>>}

RECURSIVE ObjPaths(_)
ObjPaths(val) ==
  IF val.t = "o"
  THEN {<<>>} \cup
       UNION {{<<k>> \o q : q \in ObjPaths(val.f[k])} : k \in DOMAIN val.f}
  ELSE {}

\* the plain value an argument stands for
RECURSIVE Plain(_, _)
Plain(h, val) ==
  CASE val.t = "o" -> O([k \in DOMAIN val.f |-> Plain(h, val.f[k])])
    [] val.t \in {"s", "st"} -> toJSON(h, val.ref)
    [] OTHER -> val

\* the newest root among the first n objects of the heap: the root space
\* constructed last
LatestRoot(h, n) ==
  CHOOSE i \in 1..n :
    /\ h[i].frozen /\ h[i].parent = 0
    /\ \A j \in 1..n : (h[j].frozen /\ h[j].parent = 0) => j <= i

\* The places (paths) whose space is not known to go on from heap h to heap
\* h2, after a call on space n: the places the newest root holds a space at
\* in h but not in h2, and, when the place of n itself was one of those
\* before (g), every place at or below it.
Dropped(h, h2, n, g) ==
  LET before == ObjPaths(toJSON(h, LatestRoot(h, Len(h))))
      after == ObjPaths(toJSON(h2, LatestRoot(h2, Len(h2))))
  IN  (before \ after) \cup
      (IF Path(h, n) \in g
       THEN {q \in before \cup after : IsPrefix(Path(h, n), q)}
       ELSE {})

\* ----------------------------------------------------------------- actions
\* last: the call (op, target, arg), what it returned (ret) or that it threw
\* (err), the size of the heap before it (len) and, class-style, the state
\* object each space had before it (gen)
NoCall == [op |-> "none", target |-> 0, arg |-> <<>>, ret |-> 0,
           err |-> FALSE, len |-> 0, gen |-> <<>>]

InitFnDoc ==
  /\ api = "FnDoc"
  /\ spaces = Space(<<>>, InitialState, "", 0, U).h
  /\ subscribers = <<>>
  /\ nsubs = 0
  /\ subOn = <<>>
  /\ role = <<>>
  /\ pending = <<>>
  /\ unsubs = <<>>
  /\ gone = {}
  /\ log = <<>>
  /\ last = NoCall
  /\ steps = 0

\* Space i is finished and so is every space above it: what a constructor
\* that threw has left behind is not.
RECURSIVE Finished(_, _)
Finished(h, i) ==
  h[i].frozen /\ (h[i].parent = 0 \/ Finished(h, h[i].parent))

\* the space objects calling code can hold
Spaces == {i \in 1..Len(spaces) : Finished(spaces, i)}

\* n(mergeObj)
FnDocMerge(n, mergeObj) ==
  /\ api = "FnDoc" /\ steps < MaxOps
  /\ \E r \in {mergeAndNotifySubscribers(spaces, n, mergeObj)} :
       /\ spaces' = r.h
       /\ log' = Pass(r.log, 1)
       /\ last' = [op |-> "merge", target |-> n, arg |-> mergeObj,
                   ret |-> IF r.err THEN 0 ELSE r.id, err |-> r.err,
                   len |-> Len(spaces), gen |-> <<>>]
       /\ gone' = gone \cup Dropped(spaces, r.h, n, gone)
  /\ steps' = steps + 1
  /\ UNCHANGED <<api, subscribers, nsubs, subOn, role>>

\* n(key)(value)
FnDocSet(n, key, value) ==
  /\ api = "FnDoc" /\ steps < MaxOps
  /\ \E r \in {mergeAndNotifySubscribers(spaces, n, (key :> P(value)))} :
       /\ spaces' = r.h
       /\ log' = Pass(r.log, 1)
       /\ last' = [op |-> "set", target |-> n, arg |-> (key :> P(value)),
                   ret |-> IF r.err THEN 0 ELSE r.id, err |-> r.err,
                   len |-> Len(spaces), gen |-> <<>>]
       /\ gone' = gone \cup Dropped(spaces, r.h, n, gone)
  /\ steps' = steps + 1
  /\ UNCHANGED <<api, subscribers, nsubs, subOn, role>>

\* n(action)(): actionWrapper (README.md:373-393)
FnDocAction(n, body) ==
  /\ api = "FnDoc" /\ steps + Cost(body) <= MaxOps
  /\ \E r \in {actionWrapper(spaces, n, body)} :
       /\ spaces' = r.h
       /\ log' = r.log
       /\ last' = [op |-> "action", target |-> n, arg |-> body,
                   ret |-> r.id, err |-> r.err, len |-> Len(spaces),
                   gen |-> <<>>]
       /\ gone' = gone \cup Dropped(spaces, r.h, n, gone)
  /\ steps' = steps + Cost(body)
  /\ UNCHANGED <<api, subscribers, nsubs, subOn, role>>

\* subscribe(n, callback) (README.md:487-489)
FnSubscribe(n) ==
  /\ api \in {"FnDoc", "FnLib"} /\ steps < MaxOps /\ nsubs < MaxSubs
  /\ subscribers' = (spaces[n].subs :> Append(SubsOf(spaces[n].subs), nsubs + 1))
                    @@ subscribers
  /\ nsubs' = nsubs + 1
  /\ subOn' = Append(subOn, n)
  /\ role' = Append(role, "plain")
  /\ log' = <<>>
  /\ last' = [op |-> "subscribe", target |-> n, arg |-> <<>>, ret |-> 0,
              err |-> FALSE, len |-> Len(spaces), gen |-> <<>>]
  /\ steps' = steps + 1
  /\ UNCHANGED <<api, spaces, gone>>

\* ------------------------------------------- function-style actions, FnLib
InitFnLib ==
  /\ api = "FnLib"
  /\ spaces = [LibSpace(<<>>, InitialState, "", 0, 0).h EXCEPT ![1].seen = TRUE]
  /\ subscribers = <<>>
  /\ nsubs = 0
  /\ subOn = <<>>
  /\ role = <<>>
  /\ pending = <<>>
  /\ unsubs = <<>>
  /\ gone = {}
  /\ log = <<>>
  /\ last = NoCall
  /\ steps = 0

\* the spaces in the tree of space i
RECURSIVE SubTree(_, _)
SubTree(h, i) ==
  {i} \cup UNION {SubTree(h, h[i].kids[k].ref) :
                    k \in {kk \in DOMAIN h[i].kids : h[i].kids[kk].t = "s"}}

\* space i and the spaces above it (_parent)
RECURSIVE Above(_, _)
Above(h, i) == {i} \cup (IF h[i].parent # 0 THEN Above(h, h[i].parent) ELSE {})

\* the space objects calling code can hold: those returned to it or passed
\* to its subscribers, and what their attributes and _parent lead to
LibSpaces ==
  UNION {SubTree(spaces, j) :
           j \in UNION {Above(spaces, i) :
                          i \in {ii \in 1..Len(spaces) : spaces[ii].seen}}}

\* the heap with the spaces returned or passed to subscribers marked
MarkSeen(h, lg, ret) ==
  [i \in 1..Len(h) |->
     IF i = ret \/ \E e \in 1..Len(lg) : i \in {lg[e].new, lg[e].old}
     THEN [h[i] EXCEPT !.seen = TRUE] ELSE h[i]]

\* n(mergeObj)
LibMerge(n, mergeObj) ==
  /\ api = "FnLib" /\ steps < MaxOps
  /\ \E r \in {LibMergeAndNotifySubscribers(spaces, n, mergeObj)} :
       /\ spaces' = MarkSeen(r.h, r.log, r.id)
       /\ log' = Pass(r.log, 1)
       /\ last' = [op |-> "merge", target |-> n, arg |-> mergeObj,
                   ret |-> r.id, err |-> r.err, len |-> Len(spaces),
                   gen |-> <<>>]
       /\ gone' = gone \cup Dropped(spaces, r.h, n, gone)
  /\ steps' = steps + 1
  /\ UNCHANGED <<api, subscribers, nsubs, subOn, role>>

\* n(key)(value): attrSetter returns nothing
LibSet(n, key, value) ==
  /\ api = "FnLib" /\ steps < MaxOps
  /\ \E r \in {LibMergeAndNotifySubscribers(spaces, n, (key :> P(value)))} :
       /\ spaces' = MarkSeen(r.h, r.log, 0)
       /\ log' = Pass(r.log, 1)
       /\ last' = [op |-> "set", target |-> n, arg |-> (key :> P(value)),
                   ret |-> 0, err |-> r.err, len |-> Len(spaces),
                   gen |-> <<>>]
       /\ gone' = gone \cup Dropped(spaces, r.h, n, gone)
  /\ steps' = steps + 1
  /\ UNCHANGED <<api, subscribers, nsubs, subOn, role>>

\* n(action)() for an action that makes the calls of body and returns
\* result; actionWrapper returns nothing
LibAction(n, body, result) ==
  /\ api = "FnLib" /\ steps + Cost(body) <= MaxOps
  /\ \E r \in {LibActionWrapper(spaces, n, body, result)} :
       /\ spaces' = MarkSeen(r.h, r.log, 0)
       /\ log' = r.log
       /\ last' = [op |-> IF result.t = "n" THEN "actionNull" ELSE "action",
                   target |-> n, arg |-> body, ret |-> 0, err |-> r.err,
                   len |-> Len(spaces), gen |-> <<>>]
       /\ gone' = gone \cup Dropped(spaces, r.h, n, gone)
  /\ steps' = steps + Cost(body)
  /\ UNCHANGED <<api, subscribers, nsubs, subOn, role>>

\* ---------------------------------------------------- class-style actions
InitClass ==
  /\ api = "Class"
  /\ spaces = NewSpace(<<>>, InitialState, 0)
  /\ subscribers = <<>>
  /\ nsubs = 0
  /\ subOn = <<>>
  /\ role = <<>>
  /\ pending = <<>>
  /\ unsubs = <<>>
  /\ gone = {}
  /\ log = <<>>
  /\ last = NoCall
  /\ steps = 0

ClsSpaces == {i \in 1..Len(spaces) : spaces[i].kind = "space"}

\* the state object each space has now
Gen == [i \in ClsSpaces |-> spaces[i].generatedState]

ClsCall(op, n, arg, ret, err) ==
  [op |-> op, target |-> n, arg |-> arg, ret |-> ret, err |-> err,
   len |-> Len(spaces), gen |-> Gen]

\* merge objects and callback results: an object or undefined
ClsPatches ==
  { U, O([x |-> P(1)]), O([a |-> Obj1]), O([a |-> O([l |-> Obj1])]) }

\* n.subSpace(name) (lib/Space.js:358-400)
ClsSubSpace(n, name) ==
  /\ api = "Class" /\ steps < MaxClsOps
  /\ spaces[n].preState.t = "o"
  /\ LET item == IF name \in DOMAIN spaces[n].preState.f
                 THEN spaces[n].preState.f[name] ELSE U
         id == Len(spaces) + 2
     IN  IF item.t = "s"
         THEN /\ spaces' = [spaces EXCEPT ![item.ref].name = name]
              /\ last' = ClsCall("subSpace", n, name, item.ref, FALSE)
         ELSE IF item.t \in {"o", "a", "u", "n"}
         THEN /\ spaces' =
                   [NewSpace(spaces,
                             IF item.t \in {"o", "a"} THEN item ELSE O(<<>>), n)
                      EXCEPT ![n].preState.f = (name :> S(id)) @@ @,
                             ![id].name = name]
              /\ last' = ClsCall("subSpace", n, name, id, FALSE)
         ELSE /\ spaces' = spaces
              /\ last' = ClsCall("subSpace", n, name, 0, TRUE)
  /\ log' = <<>>
  /\ steps' = steps + 1
  /\ UNCHANGED <<api, subscribers, nsubs, subOn, role, gone>>

\* n.setState(mergeObj) (lib/Space.js:327-335)
ClsSetState(n, mergeObj) ==
  /\ api = "Class" /\ steps < MaxClsOps
  /\ \E r \in {mergeState(spaces, n, mergeObj)} :
       /\ spaces' = r.h
       /\ log' = Pass(r.log, 1)
       /\ last' = ClsCall("setState", n, mergeObj, 0, r.err)
  /\ steps' = steps + 1
  /\ UNCHANGED <<api, subscribers, nsubs, subOn, role, gone>>

\* n.bindTo(callback)() for a callback that returns result
\* (lib/Space.js:254-305, the branch of line 302)
ClsBindTo(n, result) ==
  /\ api = "Class" /\ steps < MaxClsOps
  /\ \E r \in {mergeState(spaces, n, result)} :
       /\ spaces' = r.h
       /\ log' = Pass(r.log, 1)
       /\ last' = ClsCall("bindTo", n, result, 0, r.err)
  /\ steps' = steps + 1
  /\ UNCHANGED <<api, subscribers, nsubs, subOn, role, gone>>

\* n.applyValue(key)(value) (lib/Space.js:307-325)
ClsApplyValue(n, key, value) ==
  /\ api = "Class" /\ steps < MaxClsOps
  /\ LET r == notifyChange(
                [spaces EXCEPT ![n].preState.f = (key :> P(value)) @@ @], n)
     IN  /\ spaces' = r.h
         /\ log' = Pass(r.log, 1)
  /\ last' = ClsCall("applyValue", n, (key :> P(value)), 0, FALSE)
  /\ steps' = steps + 1
  /\ UNCHANGED <<api, subscribers, nsubs, subOn, role, gone>>

\* n.replaceState(obj) (lib/Space.js:337-341)
ClsReplaceState(n, obj) ==
  /\ api = "Class" /\ steps < MaxClsOps
  /\ LET r == notifyChange([spaces EXCEPT ![n].preState = O(obj)], n)
     IN  /\ spaces' = r.h
         /\ log' = Pass(r.log, 1)
  /\ last' = ClsCall("replaceState", n, obj, 0, FALSE)
  /\ steps' = steps + 1
  /\ UNCHANGED <<api, subscribers, nsubs, subOn, role, gone>>

\* n.subscribe(subscriber) (lib/Space.js:402-413), options left as they
\* are by default: the subscriber is called at once with 'initialized',
\* which the log shows as pass 0
ClsSubscribe(n) ==
  /\ api = "Class" /\ steps < MaxClsOps /\ nsubs < MaxSubs
  /\ subscribers' = (n :> Append(SubsOf(n), nsubs + 1)) @@ subscribers
  /\ nsubs' = nsubs + 1
  /\ subOn' = Append(subOn, n)
  /\ role' = Append(role, "plain")
  /\ log' = <<[sub |-> nsubs + 1, new |-> n, old |-> 0, pass |-> 0]>>
  /\ last' = ClsCall("subscribe", n, <<>>, 0, FALSE)
  /\ steps' = steps + 1
  /\ UNCHANGED <<api, spaces, gone>>

\* ----------------------------------------------------------- specification
\* A behaviour runs the function-style library of README.md or the
\* class-style library.
Init == InitFnDoc \/ InitClass

NextFnDoc ==
  /\ api = "FnDoc" /\ UNCHANGED <<pending, unsubs>>
  /\ \/ \E n \in Spaces : \E m \in PatchesFor(spaces, n) : FnDocMerge(n, m)
     \/ \E n \in Spaces : \E kv \in Setters : FnDocSet(n, kv[1], kv[2])
     \/ \E n \in Spaces : \E b \in Bodies : FnDocAction(n, b)
     \/ \E n \in Spaces : FnSubscribe(n)

NextClass ==
  /\ api = "Class" /\ UNCHANGED <<pending, unsubs>>
  /\ \/ \E n \in ClsSpaces : \E name \in {"a", "b", "l", "x"} :
          ClsSubSpace(n, name)
     \/ \E n \in ClsSpaces : \E m \in ClsPatches : ClsSetState(n, m)
     \/ \E n \in ClsSpaces : \E m \in {U, O([x |-> P(2)])} : ClsBindTo(n, m)
     \/ \E n \in ClsSpaces : ClsApplyValue(n, "x", 2)
     \/ \E n \in ClsSpaces : ClsReplaceState(n, [y |-> P(2)])
     \/ \E n \in ClsSpaces : ClsSubscribe(n)

Next == NextFnDoc \/ NextClass

\* A behaviour of the function-style library of lib/Space.js
NextFnLib ==
  /\ api = "FnLib" /\ UNCHANGED <<pending, unsubs>>
  /\ \/ \E n \in LibSpaces : \E m \in Patches : LibMerge(n, m)
     \/ \E n \in LibSpaces : \E kv \in Setters : LibSet(n, kv[1], kv[2])
     \/ \E n \in LibSpaces : \E b \in Bodies : LibAction(n, b, U)
     \/ \E n \in LibSpaces : FnSubscribe(n)

SpecFnLib == InitFnLib /\ [][NextFnLib]_vars

Spec == Init /\ [][Next]_vars

\* ------------------------------------------- behaviours on a tree with a list
\* the initial value of the root: { l: [{ id: 1, x: 0 }, { id: 2, x: 0 }], x: 0 }
ListState ==
  O([l |-> A(<<O([id |-> P(1), x |-> P(0)]), O([id |-> P(2), x |-> P(0)])>>),
     x |-> P(0)])

InitClsList ==
  /\ api = "Class"
  /\ spaces = NewSpace(<<>>, ListState, 0)
  /\ subscribers = <<>>
  /\ nsubs = 0
  /\ subOn = <<>>
  /\ role = <<>>
  /\ pending = <<>>
  /\ unsubs = <<>>
  /\ gone = {}
  /\ log = <<>>
  /\ last = NoCall
  /\ steps = 0

\* what setState is given: a value for x; a value for a new key and an
\* object for l; the list reversed, with a new item in front, without its
\* first item; null
ListPatches ==
  { O([x |-> P(1)]),
    O([a |-> P(1), l |-> O([x |-> P(1)])]),
    A(<<O([id |-> P(2)]), O([id |-> P(1)])>>),
    A(<<O([id |-> P(3), x |-> P(0)]), O([id |-> P(1)]), O([id |-> P(2)])>>),
    A(<<O([id |-> P(2)])>>),
    Null }

\* n.subSpace(id) on a space with an array (lib/Space.js:358-400).  The id
\* 0 is falsy: index = id && findIndexById(...) is 0, the item is the first
\* of the list (undefined in an empty list), no key getter is defined and
\* the new space is stored as the property "undefined" of the array, which
\* no slice, generateState or findIndexById ever reads: it is attached
\* nowhere.  Its name is undefined.
ClsSubSpaceById(n, id) ==
  /\ api = "Class" /\ steps < MaxListOps
  /\ spaces[n].preState.t = "a"
  /\ \E index \in {IF id = 0
                    THEN (IF Len(spaces[n].preState.f) > 0 THEN 1 ELSE -1)
                    ELSE findIndexById(spaces, spaces[n].preState.f, P(id))} :
     \E item \in {IF index > 0 THEN spaces[n].preState.f[index] ELSE U} :
       IF index = 0
       THEN /\ spaces' = spaces
            /\ last' = ClsCall("subSpace", n, P(id), 0, TRUE)
       ELSE IF item.t = "s"
       THEN /\ spaces' =
                 [spaces EXCEPT ![item.ref].name =
                                  IF id = 0 THEN "undefined"
                                  ELSE IdxName[id + 1]]
            /\ last' = ClsCall("subSpace", n, P(id), item.ref, FALSE)
       ELSE IF item.t \in {"o", "a"} /\ id # 0
       THEN /\ spaces' =
                 [NewSpace(spaces, item, n)
                    EXCEPT ![n].preState.f[index] = S(Len(spaces) + 2),
                           ![Len(spaces) + 2].name = IdxName[id + 1],
                           ![Len(spaces) + 2].hasKey = TRUE]
            /\ last' = ClsCall("subSpace", n, P(id), Len(spaces) + 2, FALSE)
       ELSE IF item.t \in {"o", "a", "u", "n"} /\ id = 0
       THEN /\ spaces' =
                 [NewSpace(spaces, IF item.t \in {"o", "a"} THEN item
                                   ELSE O(<<>>), n)
                    EXCEPT ![Len(spaces) + 2].name = "undefined"]
            /\ last' = ClsCall("subSpace", n, P(id), Len(spaces) + 2, FALSE)
       ELSE /\ spaces' = spaces
            /\ last' = ClsCall("subSpace", n, P(id), 0, TRUE)
  /\ log' = <<>>
  /\ steps' = steps + 1
  /\ UNCHANGED <<api, subscribers, nsubs, subOn, role, gone>>

NextClsList ==
  /\ api = "Class" /\ steps < MaxListOps /\ UNCHANGED <<pending, unsubs>>
  /\ \/ \E n \in ClsSpaces : ClsSubSpace(n, "l")
     \/ \E n \in ClsSpaces : \E id \in 0..3 : ClsSubSpaceById(n, id)
     \/ \E n \in ClsSpaces : \E m \in ListPatches : ClsSetState(n, m)
     \/ \E n \in ClsSpaces : ClsSubscribe(n)

InitLibList ==
  /\ api = "FnLib"
  /\ spaces = [LibSpace(<<>>, ListState, "", 0, 0).h EXCEPT ![1].seen = TRUE]
  /\ subscribers = <<>>
  /\ nsubs = 0
  /\ subOn = <<>>
  /\ role = <<>>
  /\ pending = <<>>
  /\ unsubs = <<>>
  /\ gone = {}
  /\ log = <<>>
  /\ last = NoCall
  /\ steps = 0

\* actions that call nothing, merge({ x: 1 }), push or unshift twice, or
\* remove, and return nothing or null
NextLibList ==
  /\ api = "FnLib" /\ UNCHANGED <<pending, unsubs>>
  /\ \/ \E n \in LibSpaces : LibMerge(n, [x |-> P(1)])
     \/ \E n \in LibSpaces :
          \E b \in {<<>>, <<Call("merge", [x |-> P(1)])>>,
                    <<Call("push", O([id |-> P(3)])),
                      Call("push", O([id |-> P(4)]))>>,
                    <<Call("unshift", O([id |-> P(3)])),
                      Call("unshift", O([id |-> P(4)]))>>,
                    <<Call("remove", {P(1), P(3)})>>} :
            \E result \in {U, Null} : LibAction(n, b, result)
     \/ \E n \in LibSpaces : FnSubscribe(n)

SpecList ==
  (InitClsList \/ InitLibList) /\ [][NextClsList \/ NextLibList]_vars

\* ------------------------------ behaviours with cancel() and replacements
\* merge objects of plain values (test/main.js:921, 931, 954)
RtPatches == { [x |-> P(1)], [y |-> P(1)] }

\* subscribe(n, subscriber) with a subscriber of role k
RtSubscribe(n, k) ==
  /\ steps < MaxRtOps /\ nsubs < MaxRtSubs
  /\ subscribers' = (spaces[n].subs :> Append(SubsOf(spaces[n].subs), nsubs + 1))
                    @@ subscribers
  /\ nsubs' = nsubs + 1
  /\ subOn' = Append(subOn, n)
  /\ role' = Append(role, k)
  /\ log' = <<>>
  /\ last' = [op |-> "subscribe", target |-> n, arg |-> <<>>, ret |-> 0,
              err |-> FALSE, len |-> Len(spaces), gen |-> <<>>]
  /\ steps' = steps + 1
  /\ UNCHANGED <<api, spaces, gone>>

\* n(mergeObj)
RtMerge(n, mergeObj) ==
  /\ steps < MaxRtOps
  /\ \E r \in {mergeAndRoute(spaces, role, n, mergeObj)} :
       /\ spaces' = r.h
       /\ log' = Pass(r.log, 1)
       /\ last' = [op |-> "merge", target |-> n, arg |-> mergeObj,
                   ret |-> IF r.err THEN 0 ELSE r.id, err |-> r.err,
                   len |-> Len(spaces), gen |-> <<>>]
  /\ steps' = steps + 1
  /\ UNCHANGED <<api, subscribers, nsubs, subOn, role, gone>>

NextRouter ==
  /\ api = "FnDoc" /\ UNCHANGED <<pending, unsubs>>
  /\ \/ \E n \in Spaces : \E k \in {"plain", "cancel", "upper"} :
          RtSubscribe(n, k)
     \/ \E n \in Spaces : \E m \in RtPatches : RtMerge(n, m)

SpecRouter == InitFnDoc /\ [][NextRouter]_vars

\* ------------------------------------------------ behaviours with async actions
\* An async action runs between its awaits as a callback of its own: each
\* merge(...) it makes is one call of the function wrapParam returned
\* (README.md:223-230), and other calls can come between two of them.
\* pending[k] is the k-th action started:
\*   [space |-> the space it was started on, todo |-> the objects it has yet
\*    to merge, done |-> those it has merged, res |-> what its promise
\*    resolved to (0: not yet, -1: the action threw)].

\* the objects an async action merges, in order
AsyncBodies == { <<[id |-> P(1)]>>, <<[y |-> P(1)], [id |-> P(1)]>> }

\* n(action)() of an async action (README.md:373-390): the action starts
AsyncStart(n, body) ==
  /\ api = "FnDoc" /\ Len(pending) < MaxAsync
  /\ rootOf(spaces, n) # 0
  /\ pending' = Append(pending, [space |-> n, todo |-> body, done |-> <<>>,
                                 res |-> 0])
  /\ log' = <<>>
  /\ last' = [op |-> "asyncStart", target |-> n, arg |-> body, ret |-> 0,
              err |-> FALSE, len |-> Len(spaces), gen |-> <<>>]
  /\ UNCHANGED <<api, spaces, subscribers, nsubs, subOn, role, gone, steps,
               unsubs>>

\* the next merge(...) of the k-th action (README.md:223-230)
AsyncMerge(k) ==
  /\ api = "FnDoc" /\ pending[k].todo # <<>>
  /\ \E r \in {wrapParam(spaces, pending[k].space, "merge",
                          Head(pending[k].todo))} :
       /\ spaces' = r.h
       /\ log' = Pass(r.log, 1)
       /\ last' = [op |-> "asyncMerge", target |-> pending[k].space,
                   arg |-> Head(pending[k].todo),
                   ret |-> IF r.err THEN 0 ELSE r.id, err |-> r.err,
                   len |-> Len(spaces), gen |-> <<>>]
       /\ gone' = gone \cup Dropped(spaces, r.h, pending[k].space, gone)
       /\ pending' =
            IF r.err
            THEN [pending EXCEPT ![k].todo = <<>>, ![k].res = -1]
            ELSE [pending EXCEPT ![k].todo = Tail(@),
                                 ![k].done = Append(@, Head(pending[k].todo))]
  /\ UNCHANGED <<api, subscribers, nsubs, subOn, role, steps, unsubs>>

\* the promise of the k-th action resolves: return newestSpace(space)
\* (README.md:385-389)
AsyncResolve(k) ==
  /\ api = "FnDoc" /\ pending[k].todo = <<>> /\ pending[k].res = 0
  /\ pending' = [pending EXCEPT ![k].res = newestSpace(spaces, pending[k].space)]
  /\ log' = <<>>
  /\ last' = [op |-> "resolve", target |-> pending[k].space, arg |-> <<>>,
              ret |-> newestSpace(spaces, pending[k].space), err |-> FALSE,
              len |-> Len(spaces), gen |-> <<>>]
  /\ UNCHANGED <<api, spaces, subscribers, nsubs, subOn, role, gone, steps,
               unsubs>>

\* async actions, and other code that sets x on a space it holds
NextAsync ==
  \/ \E n \in Spaces : \E b \in AsyncBodies : AsyncStart(n, b)
  \/ \E k \in DOMAIN pending : AsyncMerge(k)
  \/ \E k \in DOMAIN pending : AsyncResolve(k)
  \/ /\ steps < MaxDirect /\ UNCHANGED <<pending, unsubs>>
     /\ \E n \in Spaces : FnDocMerge(n, [x |-> P(2)])

SpecAsync == InitFnDoc /\ [][NextAsync]_vars

\* ------------------------------------- behaviours with subscribers that update
\* A subscriber of role "mutate" answers the notification of a call from
\* outside with setState({ y: 1 }) on the space it subscribed to.

\* notifyChange(space, causedBy) (lib/Space.js:50-61) with subscribers that
\* are run: stack holds the calls of notifyChange in progress, innermost
\* first, each [space, k |-> the subscriber forEach is at, m |-> the update
\* it notifies of (1: the call from outside, 2: the subscriber's)]; h was
\* regenerated for the innermost space; lg is the invocations so far.
RECURSIVE notifyChangeCalling(_, _, _)
notifyChangeCalling(h, stack, lg) ==
  IF stack = <<>> THEN [h |-> h, log |-> lg, err |-> FALSE]
  ELSE IF Head(stack).k > Len(SubsOf(Head(stack).space))
  THEN IF h[Head(stack).space].nextParent # 0
       THEN notifyChangeCalling(
              Regenerate(h, h[Head(stack).space].nextParent),
              <<[Head(stack) EXCEPT !.space = h[Head(stack).space].nextParent,
                                    !.k = 1]>> \o Tail(stack),
              lg)
       ELSE notifyChangeCalling(h, Tail(stack), lg)
  ELSE IF role[SubsOf(Head(stack).space)[Head(stack).k]] = "mutate"
          /\ Head(stack).m = 1
  THEN notifyChangeCalling(
         Regenerate(
           [h EXCEPT ![Head(stack).space].preState =
              applyMerge(h, @, O([y |-> P(1)])).state],
           Head(stack).space),
         <<[Head(stack) EXCEPT !.k = 1, !.m = 2],
           [Head(stack) EXCEPT !.k = @ + 1]>> \o Tail(stack),
         Append(lg, [sub |-> SubsOf(Head(stack).space)[Head(stack).k],
                     new |-> Head(stack).space, old |-> 0,
                     pass |-> Head(stack).m]))
  ELSE notifyChangeCalling(
         h, <<[Head(stack) EXCEPT !.k = @ + 1]>> \o Tail(stack),
         Append(lg, [sub |-> SubsOf(Head(stack).space)[Head(stack).k],
                     new |-> Head(stack).space, old |-> 0,
                     pass |-> Head(stack).m]))

\* n.setState(mergeObj) for an object mergeObj (lib/Space.js:327-335,
\* 169-176), the subscribers run
ClsSetStateCalling(n, mergeObj) ==
  /\ api = "Class" /\ steps < MaxClsOps
  /\ spaces[n].preState.t = "o"
  /\ \E m \in {applyMerge(spaces, spaces[n].preState, mergeObj)} :
     \E r \in {notifyChangeCalling(
                  Regenerate([m.h EXCEPT ![n].preState = m.state], n),
                  <<[space |-> n, k |-> 1, m |-> 1]>>, <<>>)} :
       /\ spaces' = r.h
       /\ log' = r.log
       /\ last' = ClsCall("setState", n, mergeObj, 0, FALSE)
  /\ steps' = steps + 1
  /\ UNCHANGED <<api, subscribers, nsubs, subOn, role, gone, unsubs>>

\* n.subscribe(subscriber) (lib/Space.js:402-413) of a subscriber of role k
ClsSubscribeAs(n, k) ==
  /\ api = "Class" /\ steps < MaxClsOps /\ nsubs < MaxSubs
  /\ subscribers' = (n :> Append(SubsOf(n), nsubs + 1)) @@ subscribers
  /\ nsubs' = nsubs + 1
  /\ subOn' = Append(subOn, n)
  /\ role' = Append(role, k)
  /\ unsubs' = Append(unsubs, [space |-> n, index |-> Len(SubsOf(n)),
                               called |-> FALSE])
  /\ log' = <<[sub |-> nsubs + 1, new |-> n, old |-> 0, pass |-> 0]>>
  /\ last' = ClsCall("subscribe", n, <<>>, 0, FALSE)
  /\ steps' = steps + 1
  /\ UNCHANGED <<api, spaces, gone>>

\* a call of the unsubscribe function that the subscribe call of subscriber
\* u returned (lib/Space.js:410-412): self.subscribers.splice(index, 1)
ClsUnsubscribe(u) ==
  /\ api = "Class" /\ steps < MaxClsOps
  /\ subscribers' =
       (unsubs[u].space :>
          [i \in 1..(Len(SubsOf(unsubs[u].space))
                     - (IF unsubs[u].index < Len(SubsOf(unsubs[u].space))
                        THEN 1 ELSE 0)) |->
             SubsOf(unsubs[u].space)[IF i <= unsubs[u].index THEN i
                                     ELSE i + 1]])
       @@ subscribers
  /\ unsubs' = [unsubs EXCEPT ![u].called = TRUE]
  /\ log' = <<>>
  /\ last' = ClsCall("unsubscribe", unsubs[u].space, u, 0, FALSE)
  /\ steps' = steps + 1
  /\ UNCHANGED <<api, spaces, nsubs, subOn, role, gone>>

\* a wrapped function that merges the value of a promise where it meets it
RECURSIVE wrappedFuncEager(_, _, _, _, _)
wrappedFuncEager(h, self, results, k, lg) ==
  IF k > Len(results) THEN [h |-> h, log |-> lg, err |-> FALSE]
  ELSE LET r == mergeState(h, self, IF results[k].t = "promise"
                                    THEN results[k].v ELSE results[k])
       IN  IF r.err THEN [h |-> r.h, log |-> lg, err |-> TRUE]
           ELSE wrappedFuncEager(r.h, self, results, k + 1,
                                 lg \o Pass(r.log, k))

\* the wrapped function of bindTo for a callback that returns a promise or
\* an iterator (lib/Space.js:273-299).  results is what the iterator gives,
\* yields and return, each a plain value or [t |-> "promise", v |-> value];
\* a callback that returns a promise is the results <<that promise>>.  A
\* plain value is merged at once; handlePromise registers a then callback.
RECURSIVE wrappedFunc(_, _, _, _, _)
wrappedFunc(h, self, results, k, lg) ==
  IF k > Len(results) THEN [h |-> h, log |-> lg, err |-> FALSE]
  ELSE IF results[k].t = "promise"
  THEN wrappedFunc(h, self, results, k + 1, lg)
  ELSE LET r == mergeState(h, self, results[k])
       IN  IF r.err THEN [h |-> r.h, log |-> lg, err |-> TRUE]
           ELSE wrappedFunc(r.h, self, results, k + 1, lg \o Pass(r.log, k))

\* n.bindTo(callback)() for a callback that returns a promise or an iterator
\* (lib/Space.js:254-305); pending gets the promises handed to handlePromise
ClsBindToIterator(n, results) ==
  /\ api = "Class" /\ steps < MaxClsOps
  /\ \E r \in {wrappedFunc(spaces, n, results, 1, <<>>)} :
       /\ spaces' = r.h
       /\ log' = r.log
       /\ last' = ClsCall("bindToIterator", n, results, 0, r.err)
  /\ \E ps \in {SelectSeq(results, LAMBDA v : v.t = "promise")} :
       pending' = pending \o [i \in 1..Len(ps) |->
                                [space |-> n, val |-> ps[i].v, res |-> 0]]
  /\ steps' = steps + 1
  /\ UNCHANGED <<api, subscribers, nsubs, subOn, role, gone, unsubs>>

\* the promise of pending[k] resolves: the then callback of handlePromise
\* (lib/Space.js:261-265) merges its value
handlePromise(k) ==
  /\ api = "Class" /\ pending[k].res = 0
  /\ \E r \in {mergeState(spaces, pending[k].space, pending[k].val)} :
       /\ spaces' = r.h
       /\ log' = Pass(r.log, 1)
       /\ last' = ClsCall("resolve", pending[k].space, pending[k].val, 0, r.err)
  /\ pending' = [pending EXCEPT ![k].res = 1]
  /\ UNCHANGED <<api, subscribers, nsubs, subOn, role, gone, steps, unsubs>>

\* a setDefaultState that also writes the keys that hold null
\* (self.preState[key] == null)
ClsSetDefaultStateNullish(n, mergeObj) ==
  /\ api = "Class" /\ steps < MaxClsOps
  /\ spaces[n].preState.t = "o"
  /\ \E unset \in {{key \in DOMAIN mergeObj.f :
                       \/ key \notin DOMAIN spaces[n].preState.f
                       \/ spaces[n].preState.f[key].t \in {"u", "n"}}} :
     \E r \in {IF unset = {}
               THEN [h |-> spaces, log |-> <<>>, err |-> FALSE]
               ELSE notifyChangeCalling(
                      Regenerate(
                        [spaces EXCEPT ![n].preState.f =
                           [key \in unset |-> mergeObj.f[key]] @@ @], n),
                      <<[space |-> n, k |-> 1, m |-> 1]>>, <<>>)} :
       /\ spaces' = r.h
       /\ log' = r.log
       /\ last' = ClsCall("setDefaultState", n, mergeObj, 0, FALSE)
  /\ steps' = steps + 1
  /\ UNCHANGED <<api, subscribers, nsubs, subOn, role, gone, unsubs>>

\* n.setDefaultState(mergeObj) (lib/Space.js:343-356): a key is written when
\* typeof self.preState[key] is 'undefined'; notifyChange runs once, after
\* the loop, when a key was written
ClsSetDefaultState(n, mergeObj) ==
  /\ api = "Class" /\ steps < MaxClsOps
  /\ spaces[n].preState.t = "o"
  /\ \E unset \in {{key \in DOMAIN mergeObj.f :
                       \/ key \notin DOMAIN spaces[n].preState.f
                       \/ spaces[n].preState.f[key].t = "u"}} :
     \E r \in {IF unset = {}
               THEN [h |-> spaces, log |-> <<>>, err |-> FALSE]
               ELSE notifyChangeCalling(
                      Regenerate(
                        [spaces EXCEPT ![n].preState.f =
                           [key \in unset |-> mergeObj.f[key]] @@ @], n),
                      <<[space |-> n, k |-> 1, m |-> 1]>>, <<>>)} :
       /\ spaces' = r.h
       /\ log' = r.log
       /\ last' = ClsCall("setDefaultState", n, mergeObj, 0, FALSE)
  /\ steps' = steps + 1
  /\ UNCHANGED <<api, subscribers, nsubs, subOn, role, gone, unsubs>>

NextCalling ==
  /\ api = "Class"
  /\ \/ /\ \E n \in ClsSpaces : \E name \in {"a", "b"} : ClsSubSpace(n, name)
        /\ UNCHANGED <<pending, unsubs>>
     \/ /\ \E n \in ClsSpaces : \E k \in {"plain", "mutate"} :
             ClsSubscribeAs(n, k)
        /\ UNCHANGED pending
     \/ /\ \E u \in DOMAIN unsubs : ClsUnsubscribe(u)
        /\ UNCHANGED pending
     \/ /\ \E n \in ClsSpaces :
             \E mergeObj \in {O([x |-> P(1)]), O([x |-> Null]), O([a |-> Null]),
                              O([a |-> O([x |-> Null])])} :
               ClsSetStateCalling(n, mergeObj)
        /\ UNCHANGED pending
     \/ \E n \in ClsSpaces :
          \E results \in {<<[t |-> "promise", v |-> O([x |-> P(3)])]>>,
                          <<O([y |-> P(1), x |-> P(2)]),
                            [t |-> "promise", v |-> O([x |-> P(3)])],
                            O([x |-> P(5)])>>} :
            ClsBindToIterator(n, results)
     \/ \E k \in DOMAIN pending : handlePromise(k)
     \/ /\ \E n \in ClsSpaces :
             ClsSetDefaultState(n, O([x |-> P(7), b |-> P(7)]))
        /\ UNCHANGED pending

SpecCalling == InitClass /\ [][NextCalling]_vars

\* ------------------------ the older class-style library: unnamed/part_009
\* Its constructor, subSpace and subscribe are those of lib/Space.js for the
\* calls made here (keys that hold an object or nothing, no options); its
\* mergeState and notifyChange differ.  An invocation is logged with the
\* state object the space held when its subscriber was called (seen).

\* notifyChange(space, causedBy) (part_009:25-36): the subscribers of space
\* are called with the state space holds; the state of the parent is
\* regenerated before the parent is notified
RECURSIVE notifyChangeOlder(_, _)
notifyChangeOlder(h, space) ==
  LET lg == [i \in 1..Len(SubsOf(space)) |->
               [sub |-> SubsOf(space)[i], new |-> space, old |-> 0,
                pass |-> 1, seen |-> h[space].generatedState]]
  IN  IF h[space].nextParent # 0
      THEN LET r == notifyChangeOlder(
                      Regenerate(h, h[space].nextParent), h[space].nextParent)
           IN  [h |-> r.h, log |-> lg \o r.log]
      ELSE [h |-> h, log |-> lg]

RECURSIVE mergeStateOlder(_, _, _), mergeStateOlderKeys(_, _, _, _, _)

\* The loop of mergeState over the keys of mergeObj (part_009:112-132): a
\* null deletes the key of space.preState, a key that holds a sub-space is
\* merged into that sub-space by mergeState, which notifies upwards.
mergeStateOlderKeys(h, space, mergeObj, keys, lg) ==
  IF keys = <<>> THEN [h |-> h, log |-> lg]
  ELSE IF mergeObj.f[Head(keys)].t = "n"
  THEN mergeStateOlderKeys(
         [h EXCEPT ![space].preState =
            O([k \in DOMAIN h[space].preState.f \ {Head(keys)} |->
                 h[space].preState.f[k]])],
         space, mergeObj, Tail(keys), lg)
  ELSE IF /\ Head(keys) \in DOMAIN h[space].preState.f
          /\ h[space].preState.f[Head(keys)].t = "s"
  THEN LET r == mergeStateOlder(h, h[space].preState.f[Head(keys)].ref,
                                mergeObj.f[Head(keys)])
       IN  mergeStateOlderKeys(r.h, space, mergeObj, Tail(keys),
                               lg \o r.log)
  ELSE mergeStateOlderKeys(h, space, mergeObj, Tail(keys), lg)

\* mergeState(space, mergeObj, causedBy) (part_009:84-141) for undefined and
\* for an object without arrays.  After the loop the keys left in mergeObj
\* are written into a copy of space.preState (applyMerge, part_009:73-82);
\* the state is regenerated and the change notified only when no key was
\* merged into a sub-space (skipNotify).
mergeStateOlder(h, space, mergeObj) ==
  IF mergeObj.t # "o" THEN [h |-> h, log |-> <<>>]
  ELSE
    LET spaceKeys == {k \in DOMAIN mergeObj.f :
                        /\ mergeObj.f[k].t # "n"
                        /\ k \in DOMAIN h[space].preState.f
                        /\ h[space].preState.f[k].t = "s"}
        left == {k \in DOMAIN mergeObj.f \ spaceKeys : mergeObj.f[k].t # "n"}
        r == mergeStateOlderKeys(h, space, mergeObj,
                                 KeySeq(DOMAIN mergeObj.f), <<>>)
        h2 == [r.h EXCEPT ![space].preState =
                 O([k \in left |-> mergeObj.f[k]] @@ r.h[space].preState.f)]
    IN  IF spaceKeys # {} THEN [h |-> h2, log |-> r.log]
        ELSE LET n == notifyChangeOlder(Regenerate(h2, space), space)
             IN  [h |-> n.h, log |-> r.log \o n.log]

\* n.setState(mergeObj) (part_009:193-208)
ClsSetStateOlder(n, mergeObj) ==
  /\ api = "Class" /\ steps < MaxClsOps
  /\ spaces[n].preState.t = "o"
  /\ \E r \in {mergeStateOlder(spaces, n, mergeObj)} :
       /\ spaces' = r.h
       /\ log' = r.log
       /\ last' = ClsCall("setState", n, mergeObj, 0, FALSE)
  /\ steps' = steps + 1
  /\ UNCHANGED <<api, subscribers, nsubs, subOn, role, gone>>

\* the calls made on a tree of the older library
NextOlder ==
  /\ api = "Class" /\ UNCHANGED <<pending, unsubs>>
  /\ \/ \E n \in ClsSpaces : \E name \in {"a", "b"} :
          /\ name \in DOMAIN spaces[n].preState.f =>
               spaces[n].preState.f[name].t \in {"o", "s"}
          /\ ClsSubSpace(n, name)
     \/ \E n \in ClsSpaces : ClsSubscribe(n)
     \/ \E n \in ClsSpaces :
          \E mergeObj \in {O([x |-> P(1)]), O([y |-> P(2)]),
                           O([a |-> O([x |-> P(1)])]),
                           O([a |-> O([x |-> P(1)]), y |-> P(2)])} :
            ClsSetStateOlder(n, mergeObj)

SpecOlder == InitClass /\ [][NextOlder]_vars

\* --------------------------------------------------------- causedBy labels
\* A label is the sequence of the pieces the code concatenates: a name, ".",
\* "[" name "]", "[\"" name "\"]", "#set:" key, "#" actionName.

\* a parentCausedBy that puts "." before every piece but "#..."
parentCausedByDotted(name, causedBy) ==
  (IF name \in {"id", "a", "b", "l", "x", "y"} THEN <<name>>
   ELSE IF name = "0" THEN <<"[", name, "]">>
   ELSE <<"[\"", name, "\"]">>)
  \o (IF Head(causedBy) \notin {"#", "#set:"} THEN <<".">> ELSE <<>>)
  \o causedBy

\* parentCausedBy of notifySubscribers (README.md:309-324) for a space of
\* that name and the causedBy of the level below.  isSimpleName
\* (README.md:292-294) holds of the identifiers among the keys of the model
\* and isNumeric (README.md:296-299) of "0"; causedBy[0] is "#" or "[" when
\* the first piece starts with it.
parentCausedBy(name, causedBy) ==
  (IF name \in {"id", "a", "b", "l", "x", "y"} THEN <<name>>
   ELSE IF name = "0" THEN <<"[", name, "]">>
   ELSE <<"[\"", name, "\"]">>)
  \o (IF Head(causedBy) \notin {"#", "#set:", "[", "[\""} THEN <<".">>
      ELSE <<>>)
  \o causedBy

\* the causedBy that notifySubscribers (README.md:301-330), called on
\* newSpace with causedBy, hands to the subscribers of space above
RECURSIVE causedByAbove(_, _, _, _)
causedByAbove(h, newSpace, above, causedBy) ==
  IF newSpace = above \/ h[newSpace].parent = 0 THEN causedBy
  ELSE causedByAbove(h, h[newSpace].parent, above,
                     parentCausedBy(h[newSpace].name, causedBy))

\* a tree with a key that is no identifier and a key that is a number:
\* { 'Has a space': { 0: { a: { x: 0 } } }, x: 0 } (test/main.js:631-645)
InitLabels ==
  /\ api = "FnDoc"
  /\ spaces = Space(<<>>, O([x |-> P(0)] @@
                            ("Has a space" :>
                               O(("0" :> O([a |-> O([x |-> P(0)])])))) ),
                    "", 0, U).h
  /\ subscribers = <<>>
  /\ nsubs = 0
  /\ subOn = <<>>
  /\ role = <<>>
  /\ pending = <<>>
  /\ unsubs = <<>>
  /\ gone = {}
  /\ log = <<>>
  /\ last = NoCall
  /\ steps = 0

SpecLabels == InitLabels /\ [][NextFnDoc]_vars

\* ------------------------------------------------- the state before a call
\* The heap only grows and a finished space changes in _newerSpaces only, so
\* the heap before the last call is the first last.len objects of the heap,
\* without the links to the spaces made since.
PreHeap ==
  [i \in 1..last.len |->
     [spaces[i] EXCEPT !.newer = SelectSeq(@, LAMBDA j : j <= last.len)]]

PreRoot == toJSON(PreHeap, LatestRoot(PreHeap, last.len))
PostRoot == toJSON(spaces, LatestRoot(spaces, Len(spaces)))

\* the space found at a path below space i, 0 when there is none
RECURSIVE Walk(_, _, _)
Walk(h, i, path) ==
  IF path = <<>> THEN i
  ELSE IF Attr(h, i, Head(path)).t = "s"
  THEN Walk(h, Attr(h, i, Head(path)).ref, Tail(path))
  ELSE 0

\* the newest version of space c is the space at c's place in the newest root
Live(h, c) ==
  Walk(h, LatestRoot(h, Len(h)), Path(h, c)) = newestSpace(h, c)

\* the updates of the last call, in order: where each merged or replaced what
Writes ==
  IF last.op \in {"merge", "set"}
  THEN <<[p |-> Path(spaces, last.target), m |-> last.arg, f |-> "merge"]>>
  ELSE [k \in 1..Len(last.arg) |->
          [p |-> IF last.arg[k].f = "root" THEN <<>>
                 ELSE Path(spaces, last.target),
           m |-> last.arg[k].arg,
           f |-> IF last.arg[k].f = "replace" THEN "replace" ELSE "merge"]]

Updated == api = "FnDoc" /\ last.op \in {"merge", "set", "action"} /\ ~last.err

\* update w re-creates or drops the space at path p
Touches(w, p) ==
  \/ IsPrefix(p, w.p)
  \/ /\ IsPrefix(w.p, p) /\ Len(w.p) < Len(p)
     /\ (w.f = "replace" \/ p[Len(w.p) + 1] \in DOMAIN w.m)

\* the keys written by a sequence of merges, with the value each holds when
\* they are over: a later merge at, above or below a key takes its place
RECURSIVE Written(_, _)
Written(ws, E) ==
  IF ws = <<>> THEN E
  ELSE LET w == Head(ws)
           new == {<<Append(w.p, k), Plain(spaces, w.m[k])>> : k \in DOMAIN w.m}
       IN  Written(Tail(ws),
                   {e \in E : \A n \in new : ~Comparable(e[1], n[1])} \cup new)

WrittenPaths(ws) ==
  UNION {{Append(ws[i].p, k) : k \in DOMAIN ws[i].m} : i \in 1..Len(ws)}

\* ------------------------------------------------------------------ claims

\* C1: a function-style update (a merge object, a quick setter, merge or
\* replace inside an action) called on a space n leaves n and every other
\* existing space with the attributes and the toJSON() it had; the change
\* shows only in a space that did not exist before, which is returned and is
\* what the subscribers registered on n get as newSpace.
C1_UpdateBuildsNewSpace ==
  [][ api = "FnDoc" =>
        /\ \A i \in 1..Len(spaces) :
             spaces[i].frozen =>
               /\ spaces'[i].kids = spaces[i].kids
               /\ spaces'[i].name = spaces[i].name
               /\ spaces'[i].parent = spaces[i].parent
               /\ toJSON(spaces', i) = toJSON(spaces, i)
        /\ (/\ last'.op \in {"merge", "set", "action"} /\ ~last'.err
            /\ last'.arg # <<>>) =>
             /\ last'.ret \notin 1..Len(spaces)
             /\ spaces'[last'.ret].frozen
             /\ last'.op \in {"merge", "set"} =>
                  \A k \in DOMAIN last'.arg :
                    GetPath(toJSON(spaces', last'.ret), <<k>>)
                      = Plain(spaces, last'.arg[k])
             /\ \A e \in 1..Len(log') : log'[e].new \notin 1..Len(spaces)
             /\ \A u \in 1..nsubs :
                  subOn[u] = last'.target =>
                    \E e \in 1..Len(log') :
                      log'[e].sub = u /\ log'[e].new = last'.ret
      ]_vars

C1_Witness ==
  /\ api = "FnDoc" /\ last.op = "set" /\ ~last.err
  /\ toJSON(spaces, last.ret) # toJSON(spaces, last.target)
  /\ \E u \in 1..nsubs : subOn[u] = last.target
  /\ \E e \in 1..Len(log) : log[e].new = last.ret

\* C2: after an update, newestSpace(c0) of a space c0 captured before it
\* (one whose place in the tree no update has dropped) holds the value found
\* at c0's place in the newest root, a value that differs from c0's makes it
\* a space other than c0, c0 itself reads as before, and a space that no
\* update touched keeps the newest version it had (c0 itself when it was the
\* newest).
C2_NewestSpaceReflectsUpdates ==
  Updated =>
    \A c0 \in 1..last.len :
      Finished(spaces, c0) =>
        LET p == Path(spaces, c0)
            after == GetPath(PostRoot, p)
            n == newestSpace(spaces, c0)
        IN  /\ (Live(PreHeap, c0) /\ p \notin gone /\ after.t = "o") =>
                 /\ toJSON(spaces, n) = after
                 /\ after # toJSON(PreHeap, c0) => n # c0
            /\ toJSON(spaces, c0) = toJSON(PreHeap, c0)
            /\ (\A k \in 1..Len(Writes) : ~Touches(Writes[k], p)) =>
                 n = newestSpace(PreHeap, c0)

C2_Witness ==
  /\ Updated /\ last.op = "merge"
  /\ \E c0 \in 1..last.len :
       /\ Finished(spaces, c0) /\ Live(PreHeap, c0)
       /\ Path(spaces, c0) \notin gone
       /\ newestSpace(PreHeap, c0) # c0
       /\ Len(Path(spaces, c0)) > Len(Path(spaces, last.target))
       /\ newestSpace(spaces, c0) \notin 1..last.len
       /\ toJSON(spaces, newestSpace(spaces, c0)) # toJSON(spaces, c0)
       /\ toJSON(spaces, newestSpace(spaces, c0))
            # toJSON(spaces, newestSpace(PreHeap, c0))
  /\ \E c1 \in 1..last.len :
       /\ Finished(spaces, c1) /\ Path(spaces, c1) # <<>>
       /\ newestSpace(spaces, c1) = c1

RECURSIVE Ancestors(_, _)
Ancestors(h, space) ==
  IF h[space].nextParent = 0 THEN <<>>
  ELSE <<h[space].nextParent>> \o Ancestors(h, h[space].nextParent)

SeqRange(q) == {q[i] : i \in 1..Len(q)}

\* how deep in its tree the space of a subscriber invocation is
Depth(space) ==
  IF api = "Class" THEN Len(Ancestors(spaces, space))
  ELSE Len(Path(spaces, space))

ClsUpdated ==
  /\ api = "Class"
  /\ last.op \in {"setState", "bindTo", "applyValue", "replaceState"}
  /\ last.arg # U

\* the invocations of subscriber u in pass k of the last call
Calls(u, k) == {e \in 1..Len(log) : log[e].sub = u /\ log[e].pass = k}

\* the library's rootOf and the spaces calling code can hold, by library
RootOfSpace(n) ==
  IF api = "FnLib" THEN LibRootOf(spaces, n) ELSE rootOf(spaces, n)

HeldSpaces == IF api = "FnLib" THEN LibSpaces ELSE Spaces

\* the newest root calling code has got: the root space constructed last
NewestRoot ==
  CHOOSE r \in HeldSpaces :
    /\ spaces[r].parent = 0
    /\ \A q \in HeldSpaces : spaces[q].parent = 0 => q <= r

\* C4: rootOf(n) is the newest version of the root of the tree, for every
\* space n calling code can hold, however stale.
C4_RootOfNewest ==
  api \in {"FnDoc", "FnLib"} =>
    \A n \in HeldSpaces : RootOfSpace(n) = NewestRoot

\* C5: an update of a space below the root (one the tree holds) gives a
\* newest root where, at every level down to the updated space, the
\* attributes beside the path are the same instances as before and the
\* attribute on the path is another space instance; class-style, the state
\* object of a sub-space is the same object after an update of other keys of
\* its parent or of a sibling sub-space.
C5_StructuralSharing ==
  /\ (/\ Updated /\ last.op \in {"merge", "set"}
      /\ Path(spaces, last.target) # <<>>
      /\ Path(spaces, last.target) \notin gone) =>
       LET p == Path(spaces, last.target)
       IN  \A j \in 1..Len(p) :
             LET N == Walk(PreHeap, LatestRoot(PreHeap, last.len),
                           SubSeq(p, 1, j - 1))
                 N2 == Walk(spaces, LatestRoot(spaces, Len(spaces)),
                            SubSeq(p, 1, j - 1))
             IN  /\ N # 0 /\ N2 # 0 /\ N2 \notin 1..last.len
                 /\ \A k \in DOMAIN spaces[N].kids \ {p[j]} :
                      Attr(spaces, N2, k) = Attr(spaces, N, k)
                 /\ Attr(spaces, N2, p[j]).t = "s"
                 /\ Attr(spaces, N2, p[j]) # Attr(spaces, N, p[j])
  /\ ClsUpdated =>
       \A c \in DOMAIN last.gen :
         (\/ /\ spaces[c].nextParent = last.target
             /\ spaces[c].name \notin
                  (IF last.op \in {"setState", "bindTo"}
                   THEN DOMAIN last.arg.f ELSE DOMAIN last.arg)
          \/ /\ c # last.target /\ spaces[c].nextParent # 0
             /\ spaces[c].nextParent = spaces[last.target].nextParent)
         => spaces[c].generatedState = last.gen[c]

C5_Witness ==
  \/ /\ Updated /\ last.op = "set"
     /\ Path(spaces, last.target) = <<"a", "l">>
     /\ newestSpace(PreHeap, last.target) # last.target
     /\ "a" \notin gone /\ <<"a", "l">> \notin gone
     /\ Attr(spaces, last.ret, "x") # Attr(spaces, last.target, "x")
     /\ Attr(spaces, LatestRoot(spaces, Len(spaces)), "b").t = "s"
  \/ /\ ClsUpdated /\ last.op = "setState"
     /\ spaces[last.target].nextParent # 0
     /\ spaces[last.target].generatedState # last.gen[last.target]
     /\ \E c \in DOMAIN last.gen :
          /\ c # last.target
          /\ spaces[c].nextParent = spaces[last.target].nextParent

\* C6: in one notification pass the subscribers of a space are all called
\* before any subscriber of a space above it: down the log of a pass the
\* depth of the notified space never grows.
C6_BottomUpNotification ==
  \A i, j \in 1..Len(log) :
    (i < j /\ log[i].pass = log[j].pass) =>
      Depth(log[i].new) >= Depth(log[j].new)

C6_Witness ==
  /\ Len(log) >= 2
  /\ \E i, j \in 1..Len(log) :
       /\ i < j /\ log[i].pass = log[j].pass
       /\ Depth(log[i].new) > Depth(log[j].new)

\* C7: a mutation call makes one notification pass, in which every
\* subscriber registered on the mutated space (one the tree holds) or on a
\* space above it is called exactly once; the k-th merge of an action calls a
\* root subscriber in pass k with a root that holds what the first k merges
\* wrote and, where only later merges write, what was there before.
C7_OnePassPerMutation ==
  /\ (Updated /\ Path(spaces, last.target) \notin gone) =>
       \A k \in 1..Len(Writes) : \A u \in 1..nsubs :
         IsPrefix(Path(spaces, subOn[u]), Writes[k].p) =>
           /\ Cardinality(Calls(u, k)) = 1
           /\ (/\ Path(spaces, subOn[u]) = <<>>
               /\ \A i \in 1..Len(Writes) : Writes[i].f = "merge") =>
                \A e \in Calls(u, k) :
                  /\ \A w \in Written(SubSeq(Writes, 1, k), {}) :
                       GetPath(toJSON(spaces, log[e].new), w[1]) = w[2]
                  /\ \A q \in WrittenPaths(Writes) :
                       q \notin WrittenPaths(SubSeq(Writes, 1, k)) =>
                         GetPath(toJSON(spaces, log[e].new), q)
                           = GetPath(PreRoot, q)
  /\ ClsUpdated =>
       \A u \in 1..nsubs :
         subOn[u] \in {last.target} \cup SeqRange(Ancestors(spaces, last.target))
           => Cardinality(Calls(u, 1)) = 1

C7_Witness ==
  \/ /\ Updated /\ last.op = "action" /\ Len(last.arg) = 2
     /\ Path(spaces, last.target) # <<>>
     /\ Path(spaces, last.target) \notin gone
     /\ last.arg[2].f = "merge"
     /\ \E u \in 1..nsubs :
          /\ Path(spaces, subOn[u]) = <<>>
          /\ Cardinality(Calls(u, 1)) = 1 /\ Cardinality(Calls(u, 2)) = 1
  \/ /\ ClsUpdated /\ spaces[last.target].nextParent # 0
     /\ \E u, v \in 1..nsubs :
          /\ subOn[u] = last.target /\ subOn[v] = spaces[last.target].nextParent
          /\ Cardinality(Calls(u, 1)) = 1 /\ Cardinality(Calls(v, 1)) = 1

\* C10: the subscribers of one space are called in the order in which they
\* subscribed: in a pass, of two calls for the same space the earlier one is
\* the earlier subscriber's.
C10_SubscriptionOrder ==
  /\ \A i, j \in 1..Len(log) :
       (i < j /\ log[i].pass = log[j].pass /\ log[i].new = log[j].new) =>
         log[i].sub < log[j].sub
  /\ \A arr \in DOMAIN subscribers :
       \A i, j \in 1..Len(subscribers[arr]) :
         i < j => subscribers[arr][i] < subscribers[arr][j]

C10_Witness ==
  \E i, j \in 1..Len(log) :
    /\ i < j /\ log[i].pass = log[j].pass /\ log[i].new = log[j].new
    /\ log[i].pass >= 1 /\ log[i].sub < log[j].sub

\* C8: an update with undefined (setState(undefined), a bound callback that
\* returns undefined, a custom action that returns nothing and calls neither
\* merge nor replace) changes nothing: no space and no state object is made
\* or changed, and no subscriber is called.
C8_NoOpOnUndefined ==
  [][ (\/ last'.op \in {"setState", "bindTo"} /\ last'.arg = U
       \/ last'.op = "action" /\ last'.arg = <<>> /\ ~last'.err)
      => (spaces' = spaces /\ log' = <<>>) ]_vars

\* C9: a subscriber registered on a version of a space (one the tree holds)
\* is called when an update is made through any later version of that space,
\* also one made anew because a space above it was updated or because its
\* parent merged a plain value onto its key.
C9_SubscribersKept ==
  (/\ api \in {"FnDoc", "FnLib"} /\ last.op \in {"merge", "set", "action"}
   /\ ~last.err /\ last.arg # <<>>
   /\ Path(spaces, last.target) \notin gone) =>
    \A u \in 1..nsubs :
      (/\ Path(spaces, subOn[u]) = Path(spaces, last.target)
       /\ subOn[u] < last.target)
      => \E e \in 1..Len(log) : log[e].sub = u

\* ------------------------------------------ claims on cancel and middleware
\* the subscribers registered on the space at the place p
SubsAt(p) == {u \in 1..nsubs : Path(spaces, subOn[u]) = p}

\* the subscribers registered on a space above the place p
SubsAbove(p) ==
  {u \in 1..nsubs : /\ IsPrefix(Path(spaces, subOn[u]), p)
                    /\ Path(spaces, subOn[u]) # p}

\* C11: when a subscriber calls cancel() for a change, no subscriber
\* registered after it on the same space and no subscriber of a space above
\* it is called for that change.
C11_CancelStops ==
  \A e \in 1..Len(log) :
    role[log[e].sub] = "cancel" =>
      /\ \A u \in SubsAt(Path(spaces, log[e].new)) :
           u > log[e].sub => \A f \in 1..Len(log) : log[f].sub # u
      /\ \A f \in 1..Len(log) :
           log[f].sub \notin SubsAbove(Path(spaces, log[e].new))

C11_Witness ==
  \E e \in 1..Len(log) :
    /\ role[log[e].sub] = "cancel"
    /\ \E u \in SubsAt(Path(spaces, log[e].new)) : u > log[e].sub
    /\ SubsAbove(Path(spaces, log[e].new)) # {}

\* C12: when a subscriber returns an object, every subscriber of the same
\* space called after it receives as newSpace a space holding the
\* replacement and not the space the subscriber received; and, no subscriber
\* having cancelled, each subscriber of the parent is called exactly once,
\* with a parent whose child of that name holds the replaced value.
C12_Replacement ==
  \A e \in 1..Len(log) :
    role[log[e].sub] = "upper" =>
      /\ \A f \in 1..Len(log) :
           (f > e /\ Path(spaces, log[f].new) = Path(spaces, log[e].new)) =>
             /\ log[f].new # log[e].new
             /\ toJSON(spaces, log[f].new) =
                  O(Assign(toJSON(spaces, log[e].new).f, [x |-> P(Upper)]))
      /\ ((\A f \in 1..Len(log) : role[log[f].sub] # "cancel")
          /\ spaces[log[e].new].parent # 0) =>
           \A u \in SubsAt(Path(spaces, spaces[log[e].new].parent)) :
             /\ Cardinality({f \in 1..Len(log) : log[f].sub = u}) = 1
             /\ \A f \in 1..Len(log) :
                  log[f].sub = u =>
                    GetPath(toJSON(spaces, log[f].new),
                            <<spaces[log[e].new].name, "x">>) = P(Upper)

C12_Witness ==
  \E e \in 1..Len(log) :
    /\ role[log[e].sub] = "upper"
    /\ toJSON(spaces, log[e].new).f["x"] # P(Upper)
    /\ \E f \in 1..Len(log) :
         f > e /\ Path(spaces, log[f].new) = Path(spaces, log[e].new)
    /\ spaces[log[e].new].parent # 0
    /\ \E f \in 1..Len(log) :
         log[f].sub \in SubsAt(Path(spaces, spaces[log[e].new].parent))

C14_ErrorAtomicity ==
  [][ last'.err =>
        /\ log' = <<>>
        /\ IF api = "Class"
           THEN \A i \in ClsSpaces :
                  /\ spaces'[i].generatedState = spaces[i].generatedState
                  /\ generateState(spaces', spaces'[i].preState)
                       = generateState(spaces, spaces[i].preState)
           ELSE spaces' = spaces ]_vars

\* the list post is the list pre with x: 1 merged into item idx
ItemUpdated(pre, post, idx) ==
  /\ Len(post) = Len(pre)
  /\ \A i \in 1..Len(pre) :
       post[i] = IF i = idx THEN O([x |-> P(1)] @@ pre[i].f) ELSE pre[i]

\* the class-style root whose list l holds the space item; 0 when none does
ListRootOf(item) ==
  IF /\ spaces[item].kind = "space" /\ spaces[item].nextParent # 0
     /\ spaces[spaces[item].nextParent].preState.t = "a"
     /\ \E i \in DOMAIN spaces[spaces[item].nextParent].preState.f :
          spaces[spaces[item].nextParent].preState.f[i] = S(item)
     /\ spaces[spaces[item].nextParent].nextParent # 0
     /\ spaces[spaces[spaces[item].nextParent].nextParent].nextParent = 0
     /\ spaces[spaces[spaces[item].nextParent].nextParent].preState.t = "o"
     /\ "l" \in DOMAIN
          spaces[spaces[spaces[item].nextParent].nextParent].preState.f
     /\ spaces[spaces[spaces[item].nextParent].nextParent].preState.f["l"]
          = S(spaces[item].nextParent)
  THEN spaces[spaces[item].nextParent].nextParent
  ELSE 0

\* C15: after { x: 1 } was merged into an item of the list l through the
\* item's own space, the list in the newest root has the length it had, the
\* item at the same index holds its fields with x: 1 (the same id), and
\* every other item is as it was.
C15_ItemUpdateKeepsList ==
  [][ /\ (/\ api = "FnLib" /\ last'.op = "merge" /\ ~last'.err
          /\ spaces[last'.target].parent # 0
          /\ spaces[spaces[last'.target].parent].isArray) =>
           \E idx \in 1..Len(PreRoot'.f["l"].f) :
             /\ IdxName[idx] = spaces[last'.target].name
             /\ ItemUpdated(PreRoot'.f["l"].f, PostRoot'.f["l"].f, idx)
      /\ (/\ api = "Class" /\ last'.op = "setState" /\ ~last'.err
          /\ last'.arg = O([x |-> P(1)])
          /\ ListRootOf(last'.target) # 0) =>
           \E idx \in DOMAIN spaces[spaces[last'.target].nextParent].preState.f :
             /\ spaces[spaces[last'.target].nextParent].preState.f[idx]
                  = S(last'.target)
             /\ ItemUpdated(
                  generateState(spaces,
                    spaces[ListRootOf(last'.target)].preState).f["l"].f,
                  generateState(spaces',
                    spaces'[ListRootOf(last'.target)].preState).f["l"].f,
                  idx) ]_vars

\* the list post is the list pre with x: 1 merged into the item whose id is
\* id, which is there, and nothing else
ItemUpdatedById(pre, post, id) ==
  /\ Len(post) = Len(pre)
  /\ \E i \in 1..Len(pre) : pre[i].f["id"] = P(id)
  /\ \A i \in 1..Len(pre) :
       post[i] = IF pre[i].f["id"] = P(id)
                 THEN O([x |-> P(1)] @@ pre[i].f) ELSE pre[i]

WithoutId(pre, id) == SelectSeq(pre, LAMBDA v : v.f["id"] # id)

\* C17: removing an item that is in the list l (an action on the item's
\* space returned null, or null was given to setState of the item's space)
\* gives a list in the newest root without that item, one shorter, with
\* every other item as it was and in the order it had.
C17_RemovalShortensList ==
  [][ /\ (/\ api = "FnLib" /\ last'.op = "actionNull" /\ ~last'.err
          /\ spaces[last'.target].parent # 0
          /\ spaces[spaces[last'.target].parent].isArray
          /\ \E i \in 1..Len(PreRoot'.f["l"].f) :
               PreRoot'.f["l"].f[i].f["id"]
                 = toJSON(spaces, last'.target).f["id"]) =>
           /\ PostRoot'.f["l"].f =
                WithoutId(PreRoot'.f["l"].f,
                          toJSON(spaces, last'.target).f["id"])
           /\ Len(PostRoot'.f["l"].f) = Len(PreRoot'.f["l"].f) - 1
      /\ (/\ api = "Class" /\ last'.op = "setState" /\ ~last'.err
          /\ last'.arg = Null
          /\ ListRootOf(last'.target) # 0) =>
           /\ generateState(spaces',
                 spaces'[ListRootOf(last'.target)].preState).f["l"].f =
                WithoutId(generateState(spaces,
                            spaces[ListRootOf(last'.target)].preState).f["l"].f,
                          Key(spaces, last'.target))
           /\ Len(generateState(spaces',
                 spaces'[ListRootOf(last'.target)].preState).f["l"].f) =
                Len(spaces[spaces[last'.target].nextParent].preState.f) - 1
    ]_vars

\* C18: an action on an item of the list l that returned nothing, having
\* called merge or not, leaves the item in the list of the newest root, and
\* the list has the length it had.
C18_OnlyNullRemoves ==
  [][ (/\ api = "FnLib" /\ last'.op = "action" /\ ~last'.err
       /\ spaces[last'.target].parent # 0
       /\ spaces[spaces[last'.target].parent].isArray
       /\ \E i \in 1..Len(PreRoot'.f["l"].f) :
            PreRoot'.f["l"].f[i].f["id"]
              = toJSON(spaces, last'.target).f["id"]) =>
        /\ Len(PostRoot'.f["l"].f) = Len(PreRoot'.f["l"].f)
        /\ \E i \in 1..Len(PostRoot'.f["l"].f) :
             PostRoot'.f["l"].f[i].f["id"]
               = toJSON(spaces, last'.target).f["id"] ]_vars

\* C19: when every async action started has made its merges and its promise
\* has resolved, whatever the order in which the merges of the actions and
\* the updates of other code came, the newest root holds at the place of
\* each action's space every key the action merged (the actions and the
\* other code write different keys or the same value); and a promise
\* resolves to the space found at the place of the action's space in the
\* newest root of that moment.
C19_AsyncMergesAllLand ==
  /\ (/\ api = "FnDoc" /\ pending # <<>>
      /\ \A k \in DOMAIN pending : pending[k].res > 0) =>
       \A k \in DOMAIN pending : \A j \in DOMAIN pending[k].done :
         \A key \in DOMAIN pending[k].done[j] :
           GetPath(PostRoot,
                   Append(Path(spaces, pending[k].space), key))
             = pending[k].done[j][key]
  /\ (api = "FnDoc" /\ last.op = "resolve") =>
       /\ last.ret = Walk(spaces, LatestRoot(spaces, Len(spaces)),
                          Path(spaces, last.target))
       /\ toJSON(spaces, last.ret) = GetPath(PostRoot, Path(spaces, last.target))

\* two actions, started on a space and on a space below it, have both
\* resolved; other code set x between the two merges of the first, and the
\* space the first was started on was no longer the newest when it merged
C19_Witness ==
  /\ api = "FnDoc" /\ Len(pending) = 2 /\ steps > 0
  /\ \A k \in DOMAIN pending : pending[k].res > 0
  /\ Len(pending[1].done) = 2
  /\ Path(spaces, pending[1].space) # Path(spaces, pending[2].space)
  /\ pending[1].res # pending[1].space
  /\ last.op = "resolve"
  /\ GetPath(PostRoot, <<"x">>) = P(2)

\* C20: in the invocations of one setState from outside, a subscriber that
\* is called for an update issued later (the one a subscriber issued while
\* it was notified) is not called afterwards for the update issued first.
C20_NotificationsInIssueOrder ==
  (api = "Class" /\ last.op = "setState" /\ ~last.err) =>
    \A i \in DOMAIN log : \A j \in DOMAIN log :
      (i < j /\ log[i].sub = log[j].sub) => log[i].pass <= log[j].pass

\* C21: in every subscriber invocation of a single update (a merge object or
\* a quick setter on a space whose place no update has dropped), oldSpace
\* is the space that stood at the place of newSpace in the newest root
\* before the call, and newSpace the one that stands there after it.
C21_OldAndNewSpace ==
  (/\ api = "FnDoc" /\ Updated /\ last.op \in {"merge", "set"}
   /\ Path(spaces, last.target) \notin gone) =>
    \A i \in DOMAIN log :
      /\ log[i].new = Walk(spaces, LatestRoot(spaces, Len(spaces)),
                           Path(spaces, log[i].new))
      /\ log[i].old = Walk(PreHeap, LatestRoot(PreHeap, last.len),
                           Path(spaces, log[i].new))

\* the label of a path as the claim writes it: an identifier as its name,
\* after a "." unless it comes first, a number in brackets, any other key
\* quoted in brackets
RECURSIVE PathLabel(_, _)
PathLabel(p, k) ==
  IF k > Len(p) THEN <<>>
  ELSE (IF p[k] \in {"id", "a", "b", "l", "x", "y"}
        THEN (IF k > 1 THEN <<".", p[k]>> ELSE <<p[k]>>)
        ELSE IF p[k] = "0" THEN <<"[", p[k], "]">>
        ELSE <<"[\"", p[k], "\"]">>)
       \o PathLabel(p, k + 1)

C25_NullKeyDeleted ==
  [][ (/\ api = "Class" /\ last'.op = "setState" /\ ~last'.err
       /\ last'.arg.t = "o") =>
        \A q \in Leaves(last'.arg) :
          GetPath(last'.arg, q) = Null =>
            GetPath(generateState(spaces', spaces'[last'.target].preState), q)
              = U
    ]_vars

\* C25 (amended): after setState(patch), a key the patch sets to null is
\* present in the state of the space and holds null, whatever it held
\* before, and a sub-space that was attached at such a key is as it was:
\* the merge did not go into it.
C25_NullKeyHoldsNull ==
  [][ (/\ api = "Class" /\ last'.op = "setState" /\ ~last'.err
       /\ last'.arg.t = "o") =>
        /\ \A q \in Leaves(last'.arg) :
             GetPath(last'.arg, q) = Null =>
               GetPath(generateState(spaces', spaces'[last'.target].preState), q)
                 = Null
        /\ \A k \in DOMAIN last'.arg.f :
             (/\ last'.arg.f[k] = Null
              /\ k \in DOMAIN spaces[last'.target].preState.f
              /\ spaces[last'.target].preState.f[k].t = "s") =>
               /\ spaces'[last'.target].preState.f[k] = Null
               /\ spaces'[spaces[last'.target].preState.f[k].ref]
                    = spaces[spaces[last'.target].preState.f[k].ref]
    ]_vars

\* { a: null } was merged into a space where a sub-space a had been made:
\* the state of the space has the key a, with null
C25_Witness ==
  /\ api = "Class" /\ last.op = "setState" /\ ~last.err
  /\ last.arg = O([a |-> Null])
  /\ \E c \in ClsSpaces :
       spaces[c].nextParent = last.target /\ spaces[c].name = "a"
  /\ "a" \in DOMAIN spaces[spaces[last.target].generatedState].val.f
  /\ spaces[spaces[last.target].generatedState].val.f["a"] = Null

\* C26: an action on an array space that returns nothing and calls
\* push(a); push(b) leaves the newest version of the list as it was with a
\* and b after it; with unshift(a); unshift(b), with b and a before it;
\* with remove(p), without the items of which p is true, the others in
\* their order; and every subscriber of the root is called with a root
\* that has this list at the place of the array space.
C26_PushUnshiftRemove ==
  [][ (/\ api = "FnLib" /\ last'.op = "action" /\ ~last'.err
       /\ spaces[last'.target].isArray /\ Len(last'.arg) > 0
       /\ last'.arg[1].f \in {"push", "unshift", "remove"}) =>
        /\ last'.arg[1].f = "push" =>
             toJSON(spaces', newestSpace(spaces', last'.target)).f
               = toJSON(spaces, newestSpace(spaces, last'.target)).f
                   \o <<last'.arg[1].arg, last'.arg[2].arg>>
        /\ last'.arg[1].f = "unshift" =>
             toJSON(spaces', newestSpace(spaces', last'.target)).f
               = <<last'.arg[2].arg, last'.arg[1].arg>>
                   \o toJSON(spaces, newestSpace(spaces, last'.target)).f
        /\ last'.arg[1].f = "remove" =>
             toJSON(spaces', newestSpace(spaces', last'.target)).f
               = SelectSeq(toJSON(spaces, newestSpace(spaces, last'.target)).f,
                           LAMBDA item : item.f["id"] \notin last'.arg[1].arg)
        /\ \A k \in 1..nsubs :
             spaces[subOn[k]].parent = 0 =>
               \E i \in DOMAIN log' :
                 /\ log'[i].sub = k
                 /\ GetPath(toJSON(spaces', log'[i].new),
                            Path(spaces, last'.target))
                      = toJSON(spaces', newestSpace(spaces', last'.target))
    ]_vars

\* push(a); push(b) in an action on the list of two items: a subscriber of
\* the root was called with a root whose list has the four items
C26_Witness ==
  /\ api = "FnLib" /\ last.op = "action" /\ ~last.err
  /\ Len(last.arg) = 2 /\ last.arg[1].f = "push"
  /\ \E i \in DOMAIN log :
       /\ spaces[log[i].new].parent = 0
       /\ toJSON(spaces, log[i].new).f["l"]
            = A(<<O([id |-> P(1), x |-> P(0)]), O([id |-> P(2), x |-> P(0)]),
                  O([id |-> P(3)]), O([id |-> P(4)])>>)

C28_SubscribersCalledOnUpdate ==
  [][ (/\ api = "Class" /\ ~last'.err
       /\ last'.op \in {"setState", "bindTo", "applyValue", "replaceState"}) =>
        \A c \in ClsSpaces :
          spaces'[spaces'[c].generatedState].val
              # spaces[spaces[c].generatedState].val =>
            \A u \in SeqRange(SubsOf(c)) :
              \E e \in DOMAIN log' : log'[e].sub = u /\ log'[e].new = c
    ]_vars

\* C29: a subscriber whose unsubscribe function has been called is not
\* registered on its space and is not called; every subscriber whose
\* unsubscribe function has not been called is registered on its space.
C29_UnsubscribeOwn ==
  \A u \in DOMAIN unsubs :
    /\ unsubs[u].called =>
         /\ u \notin SeqRange(SubsOf(subOn[u]))
         /\ \A e \in DOMAIN log : log[e].sub # u
    /\ ~unsubs[u].called => u \in SeqRange(SubsOf(subOn[u]))

\* C30: the call of a function bound with bindTo whose callback gives a
\* promise or an iterator merges the plain values yielded and returned, in
\* their order (a later value wins), and nothing of a promise: the state of
\* the space is as before wherever no plain value wrote, and each promise
\* is pending after the call.  When a pending promise resolves, its value
\* is merged into the state the space has then: the state holds the value
\* and is otherwise as it was just before.
C30_BindToPromises ==
  [][ (api = "Class" /\ ~last'.err) =>
        /\ last'.op = "bindToIterator" =>
             /\ \A k \in DOMAIN last'.arg :
                  last'.arg[k].t # "promise" =>
                    \A q \in Leaves(last'.arg[k]) :
                      (\A j \in (k + 1)..Len(last'.arg) :
                         \/ last'.arg[j].t = "promise"
                         \/ \A w \in Leaves(last'.arg[j]) : ~Comparable(q, w)) =>
                        GetPath(generateState(spaces',
                                  spaces'[last'.target].preState), q)
                          = GetPath(last'.arg[k], q)
             /\ \A q \in Leaves(generateState(spaces,
                                   spaces[last'.target].preState)) :
                  (\A k \in DOMAIN last'.arg :
                     \/ last'.arg[k].t = "promise"
                     \/ \A w \in Leaves(last'.arg[k]) : ~Comparable(q, w)) =>
                    GetPath(generateState(spaces',
                              spaces'[last'.target].preState), q)
                      = GetPath(generateState(spaces,
                                  spaces[last'.target].preState), q)
             /\ Len(pending') = Len(pending)
                  + Cardinality({k \in DOMAIN last'.arg :
                                   last'.arg[k].t = "promise"})
             /\ \A k \in DOMAIN pending' :
                  IF k \in DOMAIN pending THEN pending'[k] = pending[k]
                  ELSE /\ pending'[k].res = 0
                       /\ pending'[k].space = last'.target
                       /\ [t |-> "promise", v |-> pending'[k].val]
                            \in SeqRange(last'.arg)
        /\ last'.op = "resolve" =>
             /\ \E k \in DOMAIN pending :
                  /\ pending[k].res = 0 /\ pending'[k].res = 1
                  /\ pending[k].space = last'.target
                  /\ pending[k].val = last'.arg
             /\ \A q \in Leaves(last'.arg) :
                  GetPath(generateState(spaces',
                            spaces'[last'.target].preState), q)
                    = GetPath(last'.arg, q)
             /\ \A q \in Leaves(generateState(spaces,
                                   spaces[last'.target].preState)) :
                  (\A w \in Leaves(last'.arg) : ~Comparable(q, w)) =>
                    GetPath(generateState(spaces',
                              spaces'[last'.target].preState), q)
                      = GetPath(generateState(spaces,
                                  spaces[last'.target].preState), q)
        /\ last'.op \notin {"bindToIterator", "resolve"} =>
             pending' = pending
    ]_vars

\* yield { y: 1, x: 2 }; yield promise; return { x: 5 } was called on a
\* sub-space and the promise has resolved with { x: 3 }: the state of the
\* sub-space has x: 3 and y: 1, and the state of its parent shows it
C30_Witness ==
  /\ api = "Class" /\ last.op = "resolve" /\ ~last.err
  /\ \E k \in DOMAIN pending :
       /\ pending[k].res = 1 /\ pending[k].space = last.target
  /\ steps >= 2
  /\ GetPath(spaces[spaces[last.target].generatedState].val, <<"x">>) = P(3)
  /\ GetPath(spaces[spaces[last.target].generatedState].val, <<"y">>) = P(1)
  /\ spaces[last.target].nextParent # 0
  /\ GetPath(spaces[spaces[spaces[last.target].nextParent].generatedState].val,
             <<spaces[last.target].name, "x">>) = P(3)

\* C31: in the call of a function bound with bindTo whose callback is a
\* generator, the subscribers are called for the value the generator
\* returns only: no subscriber is called for a value it yields.
C31_NotifiedAtReturnOnly ==
  (api = "Class" /\ last.op = "bindToIterator" /\ ~last.err) =>
    \A e \in DOMAIN log : log[e].pass = Len(last.arg)

\* C34: subSpace(id) on a space with a list none of whose items has that
\* id throws, returns no space, and leaves every space as it was.
C34_MissingIdThrows ==
  [][ (/\ api = "Class" /\ last'.op = "subSpace"
       /\ spaces[last'.target].preState.t = "a"
       /\ \A i \in DOMAIN spaces[last'.target].preState.f :
            GetPath(generateState(spaces, spaces[last'.target].preState).f[i],
                    <<"id">>) # last'.arg) =>
        (last'.err /\ last'.ret = 0 /\ spaces' = spaces) ]_vars

\* C32: a subSpace call that returns a space calls no subscriber, leaves
\* every state object with its content and every space with the state
\* object it had, and leaves the returned space in the place where the
\* same call looks next time: that call returns the same space.
C32_SubSpaceKeepsState ==
  [][ (api = "Class" /\ last'.op = "subSpace" /\ ~last'.err) =>
        /\ log' = <<>>
        /\ \A i \in DOMAIN spaces :
             /\ spaces[i].kind = "state" => spaces'[i] = spaces[i]
             /\ spaces[i].kind = "space" =>
                  spaces'[i].generatedState = spaces[i].generatedState
        /\ last'.ret \in DOMAIN spaces' /\ spaces'[last'.ret].kind = "space"
        /\ IF spaces[last'.target].preState.t = "a"
           THEN \E index \in {IF last'.arg = P(0) THEN 1
                              ELSE findIndexById(spaces',
                                     spaces'[last'.target].preState.f,
                                     last'.arg)} :
                  /\ index \in DOMAIN spaces'[last'.target].preState.f
                  /\ spaces'[last'.target].preState.f[index] = S(last'.ret)
           ELSE /\ last'.arg \in DOMAIN spaces'[last'.target].preState.f
                /\ spaces'[last'.target].preState.f[last'.arg] = S(last'.ret)
    ]_vars

\* C33: the state a space exposes is frozen at every depth: the value
\* itself, every nested object and every nested array of it, with or
\* without a sub-space attached there, after the construction and after
\* every update.
C33_StateDeepFrozen ==
  api = "Class" =>
    \A n \in ClsSpaces : spaces[spaces[n].generatedState].frozen

\* C35: null passed to setState of a space that is no item of a list with
\* an id, or returned by an action of such a space, raises an error, and
\* the call changes nothing: every space keeps its state and no subscriber
\* is called.
C35_UnexpectedNull ==
  [][ /\ (/\ api = "Class" /\ last'.op = "setState" /\ last'.arg = Null
          /\ ~Truthy(Key(spaces, last'.target))) =>
           /\ last'.err
           /\ log' = <<>>
           /\ \A c \in ClsSpaces :
                spaces'[c].generatedState = spaces[c].generatedState
      /\ (/\ api = "FnLib" /\ last'.op = "actionNull" /\ last'.arg = <<>>
          /\ \/ spaces[last'.target].parent = 0
             \/ ~spaces[spaces[last'.target].parent].isArray) =>
           /\ last'.err
           /\ log' = <<>>
           /\ \A c \in LibSpaces : toJSON(spaces', c) = toJSON(spaces, c) ]_vars

C37_NewerChainGrows ==
  [][ (api = "FnDoc" \/ api = "FnLib") =>
       (\A i \in DOMAIN spaces :
          /\ i \in DOMAIN spaces'
          /\ Len(spaces[i].newer) <= Len(spaces'[i].newer)
          /\ SubSeq(spaces'[i].newer,
                    Len(spaces'[i].newer) - Len(spaces[i].newer) + 1,
                    Len(spaces'[i].newer)) = spaces[i].newer
          /\ \A j \in SeqRange(spaces'[i].newer) : j > i /\ j \in DOMAIN spaces'
          /\ spaces'[newestSpace(spaces', i)].newer = <<>>
          /\ (newestSpace(spaces, i) # i => newestSpace(spaces', i) # i)) ]_vars

C37_Witness ==
  /\ api = "FnLib" /\ last.op = "action" /\ ~last.err
  /\ spaces[last.target].newer # <<>>
  /\ spaces[last.target].newer[1] <= last.len
  /\ spaces[spaces[last.target].newer[1]].newer # <<>>
  /\ spaces[spaces[last.target].newer[1]].newer[1] > last.len

\* C38: when a subscriber of a space is called for a setState, the state
\* the space holds at that moment is the state of the space after the
\* change, whether setState was called on that space or on a sub-space
\* below it.
C38_StateReflectsChange ==
  (api = "Class" /\ last.op = "setState" /\ ~last.err) =>
    \A e \in DOMAIN log :
      spaces[log[e].seen].val
        = generateState(spaces, spaces[log[e].new].preState)

\* C39: setDefaultState(obj) writes the value of obj into every key of obj
\* that the space does not hold or holds as undefined and leaves every other
\* key of obj as it was, null and 0 included; when no subscriber updates the
\* space in turn, no other key changes either.  When a key was written,
\* every subscriber of the space and of the spaces above it is called
\* exactly once for the call and no other subscriber is; when no key was
\* written, nothing changes and no subscriber is called.  The subscribers
\* of a space are those in its list when the call is made.
C39_SetDefaultState ==
  [][ (api = "Class" /\ last'.op = "setDefaultState") =>
       (\E unset \in {{key \in DOMAIN last'.arg.f :
                          \/ key \notin DOMAIN spaces[last'.target].preState.f
                          \/ spaces[last'.target].preState.f[key].t = "u"}} :
          /\ ~last'.err
          /\ \A key \in DOMAIN last'.arg.f :
               /\ key \in DOMAIN spaces'[last'.target].preState.f
               /\ spaces'[last'.target].preState.f[key]
                    = IF key \in unset THEN last'.arg.f[key]
                      ELSE spaces[last'.target].preState.f[key]
          /\ (\A e \in DOMAIN log' : log'[e].pass = 1) =>
               spaces'[last'.target].preState.f
                 = [key \in unset |-> last'.arg.f[key]]
                   @@ spaces[last'.target].preState.f
          /\ unset = {} => (log' = <<>> /\ spaces' = spaces)
          /\ unset # {} =>
               \A sub \in 1..nsubs :
                 Cardinality({e \in DOMAIN log' :
                                log'[e].sub = sub /\ log'[e].pass = 1})
                   = IF \E c \in {last'.target}
                               \cup SeqRange(Ancestors(spaces, last'.target)) :
                          sub \in SeqRange(SubsOf(c))
                     THEN 1 ELSE 0) ]_vars

C39_Witness ==
  /\ api = "Class" /\ last.op = "setDefaultState"
  /\ "x" \in DOMAIN spaces[last.target].preState.f
  /\ spaces[last.target].preState.f["x"] = Null
  /\ spaces[last.target].preState.f["b"] = P(7)
  /\ spaces[last.target].nextParent # 0
  /\ log # <<>>

====
